---- MODULE Spec2Model ----
(***************************************************************************)
(* Model of the query_assistant RAG service: the chunker (chunkText), the  *)
(* upload handler (uploadDocument) with its concurrent embedding fan-out   *)
(* and batch upsert, and the server start-up sequence.                     *)
(*                                                                         *)
(* Strings are sequences of one-character strings, so that slicing,        *)
(* concatenation and length are computed as the JavaScript code computes   *)
(* them.                                                                   *)
(***************************************************************************)
EXTENDS Integers, Sequences, FiniteSets, TLC

(***************************************************************************)
(* Bounds of the model.                                                    *)
(***************************************************************************)
MaxTextLen == 3      \* longest enumerated text handed to chunkText
MaxChunkSize == 3    \* largest enumerated chunkSize
MaxOverlap == 3      \* largest enumerated overlap
MaxIter == 2         \* iterations followed past Len(text) in an endless loop

MaxUploads == 2      \* upload requests followed
MaxChunks == 2       \* chunks of the longest uploaded document

MaxNameLen == 3      \* longest enumerated filename
MaxSubmits == 3      \* submit events of the chat form followed
MaxChunkIndex == 11  \* largest enumerated chunk index

(***************************************************************************)
(* Program constants.                                                      *)
(***************************************************************************)
DefaultChunkSize == 500
DefaultOverlap == 100

Alphabet == {"a", "b"}

Min(a, b) == IF a < b THEN a ELSE b
Max(a, b) == IF a > b THEN a ELSE b

\* ceil(a / b) for a >= 0, b > 0
CeilDiv(a, b) == (a + b - 1) \div b

\* All sequences over S of length at most n.
SeqsUpTo(S, n) == UNION {[1..k -> S] : k \in 0..n}

(***************************************************************************)
(* String.prototype.slice(start, end): negative indexes count from the     *)
(* end, both are clamped to [0, length], and an empty range gives "".      *)
(***************************************************************************)
SliceIndex(len, k) == IF k < 0 THEN Max(len + k, 0) ELSE Min(k, len)

slice(s, start, end) ==
  LET from == SliceIndex(Len(s), start)
      to == SliceIndex(Len(s), end)
  IN  IF from < to THEN SubSeq(s, from + 1, to) ELSE <<>>

(***************************************************************************)
(* chunkText: the loop of ragController.js lines 10-14.  The loop state is *)
(* the offset i and the chunks pushed so far.                              *)
(***************************************************************************)
ChunkLoopCond(text, st) == st.i < Len(text)

\* Variant: the offset advances by chunkSize, the overlap is forgotten.
ChunkLoopBody_NoOverlap(text, chunkSize, overlap, st) ==
  LET end == st.i + chunkSize
  IN  [i |-> st.i + chunkSize,
       chunks |-> Append(st.chunks, slice(text, st.i, end))]

\* Variant: the slice stops one character early.
ChunkLoopBody_ShortSlice(text, chunkSize, overlap, st) ==
  LET end == st.i + chunkSize - 1
  IN  [i |-> st.i + (chunkSize - overlap),
       chunks |-> Append(st.chunks, slice(text, st.i, end))]

\* Variant: the offset advances one character too far.
ChunkLoopBody_SkipOne(text, chunkSize, overlap, st) ==
  LET end == st.i + chunkSize
  IN  [i |-> st.i + (chunkSize - overlap) + 1,
       chunks |-> Append(st.chunks, slice(text, st.i, end))]

ChunkLoopBody(text, chunkSize, overlap, st) ==
  LET end == st.i + chunkSize
  IN  [i |-> st.i + (chunkSize - overlap),
       chunks |-> Append(st.chunks, slice(text, st.i, end))]

ChunkLoopInit == [i |-> 0, chunks |-> <<>>]

RECURSIVE ChunkLoopRun(_, _, _, _)
ChunkLoopRun(text, chunkSize, overlap, st) ==
  IF ChunkLoopCond(text, st)
  THEN ChunkLoopRun(text, chunkSize, overlap,
                    ChunkLoopBody(text, chunkSize, overlap, st))
  ELSE st.chunks

\* chunkText(text, chunkSize, overlap); only evaluated where the loop ends.
chunkText(text, chunkSize, overlap) ==
  ChunkLoopRun(text, chunkSize, overlap, ChunkLoopInit)

VARIABLES
  ckText,      \* chunkText: argument text
  ckSize,      \* chunkText: argument chunkSize
  ckOverlap,   \* chunkText: argument overlap
  ckLoop,      \* chunkText: loop state [i, chunks]
  ckPc         \* chunkText: "loop" while running, "returned" after return

VARIABLES
  serverState,    \* server.js startServer: "starting", "listening", "exited"
  pineconeIndex,  \* pineconeClient.js: TRUE once the index handle is set
  store,          \* the Pinecone index: records keyed by (namespace, id)
  upPc,           \* per upload request: position of the handler
  upFile,         \* per upload request: req.file (0 = none)
  upChunks,       \* per upload request: local chunks
  upNamespace,    \* per upload request: local namespace (0 = not generated)
  upEmb,          \* per upload request: state of each getEmbedding promise
  upOutOfOrder,   \* per upload request: a later embedding resolved first
  upUpserts,      \* per upload request: upsert calls made [namespace, vectors]
  upCalls,        \* per upload request: calls made, by callee
  upRes           \* per upload request: HTTP statuses sent, in order

VARIABLES
  qPc,          \* query request: position of the handler
  qQuestion,    \* query request: req.body.question [defined, text]
  qEmbedding,   \* query request: local questionEmbedding
  qNamespaces,  \* query request: local namespaces
  qQueries,     \* query request: similarity queries made, in order
  qAnswers,     \* query request: matches each similarity query returned
  qAllMatches,  \* query request: local allMatches after the loop (line 123)
  qRelevant,    \* query request: local relevantMatches (line 133)
  qGenerate,    \* query request: generateAnswer calls [userQuery, context]
  qCalls,       \* query request: calls made, by callee
  qFailed,      \* query request: the external call that failed ("" = none)
  qUploaded,    \* query request: uploads answered 200 before it arrived
  qRes          \* query request: responses sent [status, answer, sources]

VARIABLES
  idName,      \* record id round trip: req.file.originalname
  idIndex,     \* record id round trip: chunk index i
  idId,        \* record id round trip: the id built at upload time
  idFileName,  \* record id round trip: the fileName derived at query time
  idPc         \* record id round trip: "idle", "named", "built", "derived"

VARIABLES
  nodeEnv,         \* FAISS server: process.env.NODE_ENV
  fsDataDir,       \* FAISS server: documents stored in the data directory
  fsStores,        \* FAISS server: the FaissStore objects created, by identity
  fsVectorStore,   \* FAISS server: global vectorStore (0 = null, else identity)
  fsIsProcessing,  \* FAISS server: global isProcessing
  fsInitPc,        \* FAISS server: position of initializeVectorStore
  fsInitDocs,      \* FAISS server: documents initializeVectorStore has read
  fsUpPc,          \* FAISS upload r: position of the /upload handler
  fsUpTarget,      \* FAISS upload r: store object addDocuments was called on
  fsUpRes,         \* FAISS upload r: responses sent [status, details]
  fsAskPc,         \* FAISS ask: position of the /api/ask handler
  fsAskStore,      \* FAISS ask: store object the retriever was built on
  fsAskDocs,       \* FAISS ask: documents that store held when searched
  fsAskAfter,      \* FAISS ask: uploads answered 200 before it arrived
  fsAskRes         \* FAISS ask: responses sent [status, details]

VARIABLES
  corsFrontendUrl,  \* CORS check: process.env.FRONTEND_URL (<<>> = unset)
  corsOrigin,       \* CORS check: the request's Origin header [defined, value]
  corsPc,           \* CORS check: "idle", "received", "admitted", "rejected"
  corsServer        \* CORS check: the server file that runs the check

VARIABLES
  uiQuery,      \* chat UI: state query (the input's text)
  uiIsLoading,  \* chat UI: state isLoading
  uiRendered,   \* chat UI: isLoading as captured by the rendered handlers
  uiMessages,   \* chat UI: state messages, as the senders in order
  uiInFlight,   \* chat UI: /query requests sent and not yet settled
  uiSent,       \* chat UI: /query requests sent so far
  uiSubmits,    \* chat UI: submit events handled so far
  uiSettled     \* chat UI: outcomes of the settled requests, in order

ckVars == <<ckText, ckSize, ckOverlap, ckLoop, ckPc>>

srvVars == <<serverState, pineconeIndex>>

upVars == <<store, upPc, upFile, upChunks, upNamespace, upEmb,
            upOutOfOrder, upUpserts, upCalls, upRes>>

qVars == <<qPc, qQuestion, qEmbedding, qNamespaces, qQueries, qAnswers,
           qAllMatches, qRelevant, qGenerate, qCalls, qFailed, qUploaded,
           qRes>>

idVars == <<idName, idIndex, idId, idFileName, idPc>>

fsVars == <<nodeEnv, fsDataDir, fsStores, fsVectorStore, fsIsProcessing,
            fsInitPc, fsInitDocs, fsUpPc, fsUpTarget, fsUpRes, fsAskPc,
            fsAskStore, fsAskDocs, fsAskAfter, fsAskRes>>

corsVars == <<corsFrontendUrl, corsOrigin, corsPc, corsServer>>

uiVars == <<uiQuery, uiIsLoading, uiRendered, uiMessages, uiInFlight, uiSent,
            uiSubmits, uiSettled>>

vars == <<ckText, ckSize, ckOverlap, ckLoop, ckPc, serverState, pineconeIndex,
          store, upPc, upFile, upChunks, upNamespace, upEmb,
          upOutOfOrder, upUpserts, upCalls, upRes,
          qPc, qQuestion, qEmbedding, qNamespaces, qQueries, qAnswers,
          qAllMatches, qRelevant, qGenerate, qCalls, qFailed, qUploaded, qRes,
          idName, idIndex, idId, idFileName, idPc,
          nodeEnv, fsDataDir, fsStores, fsVectorStore, fsIsProcessing,
          fsInitPc, fsInitDocs, fsUpPc, fsUpTarget, fsUpRes, fsAskPc,
          fsAskStore, fsAskDocs, fsAskAfter, fsAskRes,
          corsFrontendUrl, corsOrigin, corsPc, corsServer,
          uiQuery, uiIsLoading, uiRendered, uiMessages, uiInFlight, uiSent,
          uiSubmits, uiSettled>>

Uploads == 1..MaxUploads

NoCalls == [chunkText |-> 0, getPineconeIndex |-> 0, uuidv4 |-> 0,
            getEmbedding |-> 0, upsert |-> 0]

\* No vector: the value of a promise that has not resolved with one.
NoVector == [len |-> -1, head |-> ""]

NoQueryCalls == [getPineconeIndex |-> 0, getEmbedding |-> 0,
                 describeIndexStats |-> 0, query |-> 0, generateAnswer |-> 0]

\* No query request has been received.
QueryIdle ==
  /\ qPc = "idle"
  /\ qQuestion = [defined |-> FALSE, text |-> <<>>]
  /\ qEmbedding = NoVector
  /\ qNamespaces = <<>>
  /\ qQueries = <<>>
  /\ qAnswers = <<>>
  /\ qAllMatches = <<>>
  /\ qRelevant = <<>>
  /\ qGenerate = <<>>
  /\ qCalls = NoQueryCalls
  /\ qFailed = ""
  /\ qUploaded = {}
  /\ qRes = <<>>

\* No record id is being built or decoded.
IdIdle ==
  /\ idName = <<>>
  /\ idIndex = 0
  /\ idId = <<>>
  /\ idFileName = <<>>
  /\ idPc = "idle"

\* The FAISS server has not started.
FaissIdle ==
  /\ nodeEnv = "production"
  /\ fsDataDir = {}
  /\ fsStores = <<>>
  /\ fsVectorStore = 0
  /\ fsIsProcessing = FALSE
  /\ fsInitPc = "notStarted"
  /\ fsInitDocs = {}
  /\ fsUpPc = [r \in 1..MaxUploads |-> "idle"]
  /\ fsUpTarget = [r \in 1..MaxUploads |-> 0]
  /\ fsUpRes = [r \in 1..MaxUploads |-> <<>>]
  /\ fsAskPc = "idle"
  /\ fsAskStore = 0
  /\ fsAskDocs = {}
  /\ fsAskAfter = {}
  /\ fsAskRes = <<>>

\* No cross-origin request is being checked.
CorsIdle ==
  /\ corsFrontendUrl = <<>>
  /\ corsOrigin = [defined |-> FALSE, value |-> <<>>]
  /\ corsPc = "idle"
  /\ corsServer = "server.js"

\* The chat UI is not mounted.
ChatIdle ==
  /\ uiQuery = <<>>
  /\ uiIsLoading = FALSE
  /\ uiRendered = FALSE
  /\ uiMessages = <<>>
  /\ uiInFlight = 0
  /\ uiSent = 0
  /\ uiSubmits = 0
  /\ uiSettled = <<>>

\* No upload request has been received.
UploadsIdle ==
  /\ upPc = [r \in Uploads |-> "idle"]
  /\ upFile = [r \in Uploads |-> 0]
  /\ upChunks = [r \in Uploads |-> <<>>]
  /\ upNamespace = [r \in Uploads |-> 0]
  /\ upEmb = [r \in Uploads |-> <<>>]
  /\ upOutOfOrder = [r \in Uploads |-> FALSE]
  /\ upUpserts = [r \in Uploads |-> <<>>]
  /\ upCalls = [r \in Uploads |-> NoCalls]
  /\ upRes = [r \in Uploads |-> <<>>]

\* The server before startServer has run and before any request.
ServerIdle ==
  /\ serverState = "starting"
  /\ pineconeIndex = FALSE
  /\ store = {}
  /\ UploadsIdle

\* chunkText not being called.
ChunkIdle ==
  /\ ckText = <<>>
  /\ ckSize = DefaultChunkSize
  /\ ckOverlap = DefaultOverlap
  /\ ckLoop = ChunkLoopInit
  /\ ckPc = "idle"

\* The text of the boundary example: 1000 characters.
ExampleText == [k \in 1..1000 |-> IF k % 2 = 0 THEN "a" ELSE "b"]

ChunkInputs ==
  {<<t, c, o>> : t \in SeqsUpTo(Alphabet, MaxTextLen),
                 c \in 0..MaxChunkSize, o \in 0..MaxOverlap}
  \cup {<<ExampleText, DefaultChunkSize, DefaultOverlap>>}

ChunkInit ==
  /\ \E in \in ChunkInputs :
       /\ ckText = in[1]
       /\ ckSize = in[2]
       /\ ckOverlap = in[3]
  /\ ckLoop = ChunkLoopInit
  /\ ckPc = "loop"
  /\ ServerIdle
  /\ QueryIdle
  /\ IdIdle
  /\ FaissIdle
  /\ CorsIdle
  /\ ChatIdle

\* One iteration of the while loop.
ChunkStep ==
  /\ ckPc = "loop"
  /\ ChunkLoopCond(ckText, ckLoop)
  /\ Len(ckLoop.chunks) < Len(ckText) + MaxIter
  /\ ckLoop' = ChunkLoopBody(ckText, ckSize, ckOverlap, ckLoop)
  /\ UNCHANGED <<ckText, ckSize, ckOverlap, ckPc>>
  /\ UNCHANGED <<srvVars, upVars, qVars, idVars, fsVars, corsVars, uiVars>>

\* The loop condition is false: return chunks.
ChunkReturn ==
  /\ ckPc = "loop"
  /\ ~ChunkLoopCond(ckText, ckLoop)
  /\ ckPc' = "returned"
  /\ UNCHANGED <<ckText, ckSize, ckOverlap, ckLoop>>
  /\ UNCHANGED <<srvVars, upVars, qVars, idVars, fsVars, corsVars, uiVars>>

ChunkNext == ChunkStep \/ ChunkReturn

SpecChunk == ChunkInit /\ [][ChunkNext]_vars

(***************************************************************************)
(* Claims about chunkText, checked under SpecChunk.                        *)
(***************************************************************************)
ckReturned == ckPc = "returned"
ckL == Len(ckText)
ckChunks == ckLoop.chunks

\* C1 (as stated): with O < C, chunkText returns ceil(max(L - O, 0) / (C - O))
\* chunks when L > 0 and 0 chunks when L = 0.
C1_CountAsStated ==
  (ckReturned /\ ckOverlap < ckSize) =>
    Len(ckChunks) = IF ckL > 0
                    THEN CeilDiv(Max(ckL - ckOverlap, 0), ckSize - ckOverlap)
                    ELSE 0

\* C1 (amended): with O < C, chunkText returns exactly ceil(L / (C - O))
\* chunks, which is 0 chunks when L = 0.
C1_ChunkCount ==
  (ckReturned /\ ckOverlap < ckSize) =>
    /\ Len(ckChunks) = CeilDiv(ckL, ckSize - ckOverlap)
    /\ (ckL = 0 => Len(ckChunks) = 0)

\* A text of 3 characters cut with chunkSize 2 and overlap 1 gave 3 chunks.
C1_Witness ==
  /\ ckReturned
  /\ ckL = 3 /\ ckSize = 2 /\ ckOverlap = 1
  /\ Len(ckChunks) = 3

\* The characters of s after its first n.
DropFirst(s, n) == IF n >= Len(s) THEN <<>> ELSE SubSeq(s, n + 1, Len(s))

\* The first chunk whole, every later chunk without its first n characters,
\* concatenated in order.
RECURSIVE JoinWithoutOverlap(_, _)
JoinWithoutOverlap(chunks, n) ==
  IF chunks = <<>> THEN <<>>
  ELSE IF Len(chunks) = 1 THEN chunks[1]
  ELSE JoinWithoutOverlap(SubSeq(chunks, 1, Len(chunks) - 1), n)
         \o DropFirst(chunks[Len(chunks)], n)

\* C2: with 0 <= O < C, the first chunk followed by every later chunk with
\* its first O characters removed is the original text.
C2_Reconstruct ==
  (ckReturned /\ 0 <= ckOverlap /\ ckOverlap < ckSize) =>
    JoinWithoutOverlap(ckChunks, ckOverlap) = ckText

\* Several overlapping chunks were returned, the last one shorter than the
\* overlap.
C2_Witness ==
  /\ ckReturned
  /\ ckOverlap = 2 /\ ckSize = 3
  /\ Len(ckChunks) = 3
  /\ Len(ckChunks[3]) < ckOverlap

\* C3: with O < C, chunk k (from 0) is the substring
\* [k*(C-O), min(k*(C-O)+C, L)) of the text, chunks are emitted for exactly
\* the k with k*(C-O) < L, only trailing chunks are shorter than C, and the
\* 500/100 cut of a 1000 character text is [0,500), [400,900), [800,1000).
C3_ChunkBoundaries ==
  (ckReturned /\ ckOverlap < ckSize) =>
    LET step == ckSize - ckOverlap
        n == Len(ckChunks)
    IN  /\ \A k \in 0..(n - 1) :
             /\ k * step < ckL
             /\ ckChunks[k + 1] =
                  SubSeq(ckText, k * step + 1, Min(k * step + ckSize, ckL))
        /\ n * step >= ckL
        /\ \A j, k \in 1..n :
             (j < k /\ Len(ckChunks[j]) < ckSize) => Len(ckChunks[k]) < ckSize
        /\ (ckText = ExampleText /\ ckSize = 500 /\ ckOverlap = 100) =>
             ckChunks = << SubSeq(ExampleText, 1, 500),
                           SubSeq(ExampleText, 401, 900),
                           SubSeq(ExampleText, 801, 1000) >>

\* The boundary example has returned its three chunks.
C3_Witness ==
  /\ ckReturned
  /\ ckText = ExampleText /\ ckSize = 500 /\ ckOverlap = 100
  /\ Len(ckChunks) = 3
  /\ Len(ckChunks[3]) = 200

\* C4: chunkText on a non-empty text with chunkSize <= overlap fails fast:
\* it never enters the loop whose offset cannot advance, so no chunk is
\* ever pushed.
C4_FailFast ==
  (ckSize <= ckOverlap /\ ckL > 0) => ckLoop = ChunkLoopInit

(***************************************************************************)
(* The Pinecone server: start-up (server.js) and the upload handler        *)
(* uploadDocument (ragController.js).                                      *)
(*                                                                         *)
(* The external collaborators are modelled by their outcomes: pdf-parse    *)
(* succeeds on a parseable buffer and fails on a corrupt one, every        *)
(* embedding call resolves with some vector or rejects, and an upsert call *)
(* either stores its whole batch and resolves, or stores nothing and       *)
(* rejects.  A continuation that runs as a microtask right after the       *)
(* promise it awaits has settled is part of the action that settles it.    *)
(***************************************************************************)
\* The vector the embedding provider returns for a text.  The handlers never
\* look inside a vector, so it is represented by a digest of the text that
\* tells the chunks of a document apart.
EmbeddingOf(text) ==
  [len |-> Len(text), head |-> IF text = <<>> THEN "" ELSE text[1]]

DigitChar == <<"0", "1", "2", "3", "4", "5", "6", "7", "8", "9">>

\* Decimal representation of a natural number, as `${i}` renders it.
RECURSIVE Digits(_)
Digits(n) ==
  IF n < 10 THEN <<DigitChar[n + 1]>>
  ELSE Digits(n \div 10) \o <<DigitChar[(n % 10) + 1]>>

ChunkSuffix == <<"-", "c", "h", "u", "n", "k", "-">>

\* `${req.file.originalname}-chunk-${i}`
VectorId(originalname, i) == originalname \o ChunkSuffix \o Digits(i)

\* A document of exactly n chunks under the default chunking.
LongText(n) ==
  [k \in 1..((n - 1) * (DefaultChunkSize - DefaultOverlap) + 1) |->
     IF k % 3 = 0 THEN "a" ELSE IF k % 3 = 1 THEN "b" ELSE "c"]

\* The documents uploaded: an empty text file, a whitespace-only text file,
\* a corrupt PDF, and a PDF with MaxChunks chunks of text.
Files ==
  << [originalname |-> <<"e", ".", "t">>, mimetype |-> "text/plain",
      parseable |-> TRUE, text |-> <<>>],
     [originalname |-> <<"w", ".", "t">>, mimetype |-> "text/plain",
      parseable |-> TRUE, text |-> <<" ", "\n">>],
     [originalname |-> <<"c", ".", "p">>, mimetype |-> "application/pdf",
      parseable |-> FALSE, text |-> <<>>],
     [originalname |-> <<"d", ".", "p">>, mimetype |-> "application/pdf",
      parseable |-> TRUE, text |-> LongText(MaxChunks)] >>

FileIds == 1..Len(Files)

IsPdf(f) == Files[f].mimetype = "application/pdf"

\* uuidv4(): the values drawn are pairwise distinct (collisions of random
\* version 4 UUIDs are not followed); the one drawn by the r-th request is
\* represented by r.
Uuidv4(r) == r

\* Promise.all: the results in the order of the promises passed in.
PromiseAll(emb) == [k \in 1..Len(emb) |-> emb[k].values]

\* Variant: every record gets the first embedding.
BuildVectors_FirstEmbedding(originalname, chunks, embeddings) ==
  [k \in 1..Len(chunks) |->
     [id |-> VectorId(originalname, k - 1),
      values |-> embeddings[1],
      metadata |-> [text |-> chunks[k]]]]

\* chunks.map((chunk, i) => ({id, values: embeddings[i], metadata}))
BuildVectors(originalname, chunks, embeddings) ==
  [k \in 1..Len(chunks) |->
     [id |-> VectorId(originalname, k - 1),
      values |-> embeddings[k],
      metadata |-> [text |-> chunks[k]]]]

\* A getEmbedding promise: pending, rejected, or resolved with a vector.
Pending == [state |-> "pending", values |-> NoVector]
Rejected == [state |-> "rejected", values |-> NoVector]
ResolvedWith(v) == [state |-> "resolved", values |-> v]
Resolved(e) == e.state = "resolved"

\* Variant: Promise.all resolves as soon as one promise has resolved.
AllResolved_Any(emb) == \E k \in 1..Len(emb) : Resolved(emb[k])

\* Promise.all resolves when every promise has resolved.
AllResolved(emb) == \A k \in 1..Len(emb) : Resolved(emb[k])

Respond(r, status) == upRes' = [upRes EXCEPT ![r] = Append(@, status)]

\* index.namespace(ns).upsert(batch): last write wins on (namespace, id).
\* The field upload records which request wrote the record.
UpsertRecords(st, ns, r, batch) ==
  LET ids == {batch[k].id : k \in 1..Len(batch)}
      kept == {rec \in st : ~(rec.namespace = ns /\ rec.id \in ids)}
  IN  kept \cup {[namespace |-> ns, id |-> batch[k].id,
                  values |-> batch[k].values, metadata |-> batch[k].metadata,
                  upload |-> r] : k \in 1..Len(batch)}

\* Variant: the listener starts without awaiting initializePinecone.
ServerInitOk_NoAwait ==
  /\ serverState = "starting"
  /\ serverState' = "listening"
  /\ UNCHANGED <<ckVars, pineconeIndex, upVars, qVars, idVars, fsVars,
                 corsVars, uiVars>>

\* server.js 54-59: initializePinecone resolves, the listener starts.
ServerInitOk ==
  /\ serverState = "starting"
  /\ pineconeIndex' = TRUE
  /\ serverState' = "listening"
  /\ UNCHANGED <<ckVars, upVars, qVars, idVars, fsVars, corsVars, uiVars>>

\* server.js 60-63: initializePinecone rejects, process.exit(1).
ServerInitFail ==
  /\ serverState = "starting"
  /\ serverState' = "exited"
  /\ UNCHANGED <<ckVars, pineconeIndex, upVars, qVars, idVars,
                 fsVars, corsVars, uiVars>>

\* ragController.js 21-24: no file in the request.
UploadNoFile(r) ==
  /\ serverState = "listening"
  /\ upPc[r] = "idle"
  /\ upPc' = [upPc EXCEPT ![r] = "done"]
  /\ Respond(r, 400)
  /\ UNCHANGED <<ckVars, srvVars, qVars, idVars, fsVars, corsVars, uiVars,
                 store, upFile, upChunks,
                 upNamespace, upEmb, upOutOfOrder, upUpserts, upCalls>>

\* Variant: the batch is sent to the default namespace of the index.
UpsertCall_DefaultNamespace(namespace, vectors) ==
  [namespace |-> 0, vectors |-> vectors]

\* pineconeIndex.namespace(namespace).upsert(vectors)
UpsertCall(namespace, vectors) ==
  [namespace |-> namespace, vectors |-> vectors]

\* ragController.js 69-76: the handler builds the vectors from the
\* embeddings, calls upsert under its namespace and awaits it.
CallUpsert(r, namespace, originalname, chunks, emb, calls) ==
  /\ upUpserts' = [upUpserts EXCEPT ![r] =
                   Append(@, UpsertCall(namespace,
                                        BuildVectors(originalname, chunks,
                                                     PromiseAll(emb))))]
  /\ upCalls' = [upCalls EXCEPT ![r] = [calls EXCEPT !.upsert = @ + 1]]
  /\ upPc' = [upPc EXCEPT ![r] = "awaitUpsert"]

\* ragController.js 58-66: the text has been extracted; chunk it, get the
\* index, draw the namespace and fire one getEmbedding per chunk.  With no
\* chunk Promise.all([]) is already resolved and the handler goes on to the
\* upsert (lines 69-76).
ProcessText(r, f, text) ==
  LET chunks == chunkText(text, DefaultChunkSize, DefaultOverlap)
      c1 == [upCalls[r] EXCEPT !.chunkText = @ + 1, !.getPineconeIndex = @ + 1]
  IN  /\ upFile' = [upFile EXCEPT ![r] = f]
      /\ upChunks' = [upChunks EXCEPT ![r] = chunks]
      /\ IF ~pineconeIndex
         THEN \* getPineconeIndex throws: lines 86-93
              /\ upCalls' = [upCalls EXCEPT ![r] = c1]
              /\ upPc' = [upPc EXCEPT ![r] = "done"]
              /\ Respond(r, 500)
              /\ UNCHANGED <<upNamespace, upEmb, upUpserts>>
         ELSE LET c2 == [c1 EXCEPT !.uuidv4 = @ + 1,
                                   !.getEmbedding = @ + Len(chunks)]
                  emb == [k \in 1..Len(chunks) |-> Pending]
              IN  /\ upNamespace' = [upNamespace EXCEPT ![r] = Uuidv4(r)]
                  /\ upEmb' = [upEmb EXCEPT ![r] = emb]
                  /\ UNCHANGED upRes
                  /\ IF AllResolved(emb)
                     THEN CallUpsert(r, Uuidv4(r),
                                     Files[f].originalname, chunks, emb, c2)
                     ELSE /\ upCalls' = [upCalls EXCEPT ![r] = c2]
                          /\ upPc' = [upPc EXCEPT ![r] = "awaitEmbeddings"]
                          /\ UNCHANGED upUpserts
      /\ UNCHANGED <<ckVars, srvVars, qVars, idVars, fsVars, corsVars, uiVars,
                     store, upOutOfOrder>>

\* ragController.js 46-48, 58-66: a non-PDF file is decoded as UTF-8 (which
\* substitutes replacement characters and does not throw) and processed.
UploadText(r, f) ==
  /\ serverState = "listening"
  /\ upPc[r] = "idle"
  /\ ~IsPdf(f)
  /\ ProcessText(r, f, Files[f].text)

\* ragController.js 32-37: a PDF file is handed to pdf-parse and awaited.
UploadPdf(r, f) ==
  /\ serverState = "listening"
  /\ upPc[r] = "idle"
  /\ IsPdf(f)
  /\ upFile' = [upFile EXCEPT ![r] = f]
  /\ upPc' = [upPc EXCEPT ![r] = "awaitPdf"]
  /\ UNCHANGED <<ckVars, srvVars, qVars, idVars, fsVars, corsVars, uiVars,
                 store, upChunks, upNamespace,
                 upEmb, upOutOfOrder, upUpserts, upCalls, upRes>>

\* ragController.js 37-38, 58-66: pdf-parse resolves with the text.
PdfParsed(r) ==
  /\ upPc[r] = "awaitPdf"
  /\ Files[upFile[r]].parseable
  /\ ProcessText(r, upFile[r], Files[upFile[r]].text)

\* Variant: the parse error is swallowed and the handler goes on with an
\* empty text.
PdfFailed_FallThrough(r) ==
  /\ upPc[r] = "awaitPdf"
  /\ ~Files[upFile[r]].parseable
  /\ ProcessText(r, upFile[r], <<>>)

\* ragController.js 39-45: pdf-parse rejects.
PdfFailed(r) ==
  /\ upPc[r] = "awaitPdf"
  /\ ~Files[upFile[r]].parseable
  /\ upPc' = [upPc EXCEPT ![r] = "done"]
  /\ Respond(r, 400)
  /\ UNCHANGED <<ckVars, srvVars, qVars, idVars, fsVars, corsVars, uiVars,
                 store, upFile, upChunks,
                 upNamespace, upEmb, upOutOfOrder, upUpserts, upCalls>>

\* geminiClient.js 20-21: the embedding call for chunk k resolves.
\* When it is the last one, Promise.all resolves and the handler goes on to
\* build the vectors and call upsert (ragController.js 66-76).
EmbeddingResolve(r, k) ==
  /\ k \in 1..Len(upEmb[r])
  /\ upEmb[r][k] = Pending
  /\ LET emb == [upEmb[r] EXCEPT
                  ![k] = ResolvedWith(EmbeddingOf(upChunks[r][k]))]
         early == \E j \in 1..(k - 1) : upEmb[r][j] = Pending
     IN  /\ upEmb' = [upEmb EXCEPT ![r] = emb]
         /\ upOutOfOrder' = [upOutOfOrder EXCEPT ![r] = @ \/ early]
         /\ IF upPc[r] = "awaitEmbeddings" /\ AllResolved(emb)
            THEN CallUpsert(r, upNamespace[r], Files[upFile[r]].originalname,
                            upChunks[r], emb, upCalls[r])
            ELSE UNCHANGED <<upPc, upUpserts, upCalls>>
  /\ UNCHANGED <<ckVars, srvVars, qVars, idVars, fsVars, corsVars, uiVars,
                 store, upFile, upChunks,
                 upNamespace, upRes>>

\* geminiClient.js 22-25: the embedding call for chunk k rejects.  The first
\* rejection rejects Promise.all and the handler's catch answers 500
\* (ragController.js 86-93); later settlements are ignored.
EmbeddingReject(r, k) ==
  /\ k \in 1..Len(upEmb[r])
  /\ upEmb[r][k] = Pending
  /\ upEmb' = [upEmb EXCEPT ![r] = [@ EXCEPT ![k] = Rejected]]
  /\ IF upPc[r] = "awaitEmbeddings"
     THEN /\ upPc' = [upPc EXCEPT ![r] = "done"]
          /\ Respond(r, 500)
     ELSE UNCHANGED <<upPc, upRes>>
  /\ UNCHANGED <<ckVars, srvVars, qVars, idVars, fsVars, corsVars, uiVars,
                 store, upFile, upChunks,
                 upNamespace, upOutOfOrder, upUpserts, upCalls>>

\* The index stores the batch of the pending upsert call.  An upsert needs
\* at least one record: the index rejects an empty batch.
StoreUpsert(r) ==
  /\ upPc[r] = "awaitUpsert"
  /\ LET call == upUpserts[r][Len(upUpserts[r])]
     IN  /\ Len(call.vectors) > 0
         /\ store' = UpsertRecords(store, call.namespace, r, call.vectors)
  /\ upPc' = [upPc EXCEPT ![r] = "upserted"]
  /\ UNCHANGED <<ckVars, srvVars, qVars, idVars, fsVars, corsVars, uiVars,
                 upFile, upChunks, upNamespace,
                 upEmb, upOutOfOrder, upUpserts, upCalls, upRes>>

\* Variant: the handler answers 200 without awaiting the upsert call.
UploadRespondOk_NoAwait(r) ==
  /\ upPc[r] \in {"awaitUpsert", "upserted"}
  /\ upPc' = [upPc EXCEPT ![r] = "done"]
  /\ Respond(r, 200)
  /\ UNCHANGED <<ckVars, srvVars, qVars, idVars, fsVars, corsVars, uiVars,
                 store, upFile, upChunks,
                 upNamespace, upEmb, upOutOfOrder, upUpserts, upCalls>>

\* ragController.js 76-85: the upsert call resolves, the handler answers 200.
UploadRespondOk(r) ==
  /\ upPc[r] = "upserted"
  /\ upPc' = [upPc EXCEPT ![r] = "done"]
  /\ Respond(r, 200)
  /\ UNCHANGED <<ckVars, srvVars, qVars, idVars, fsVars, corsVars, uiVars,
                 store, upFile, upChunks,
                 upNamespace, upEmb, upOutOfOrder, upUpserts, upCalls>>

\* ragController.js 76, 86-93: the upsert call rejects, the catch answers 500.
UpsertRejected(r) ==
  /\ upPc[r] = "awaitUpsert"
  /\ upPc' = [upPc EXCEPT ![r] = "done"]
  /\ Respond(r, 500)
  /\ UNCHANGED <<ckVars, srvVars, qVars, idVars, fsVars, corsVars, uiVars,
                 store, upFile, upChunks,
                 upNamespace, upEmb, upOutOfOrder, upUpserts, upCalls>>

Init ==
  /\ ChunkIdle
  /\ ServerIdle
  /\ QueryIdle
  /\ IdIdle
  /\ FaissIdle
  /\ CorsIdle
  /\ ChatIdle

Next ==
  \/ ServerInitOk
  \/ ServerInitFail
  \/ \E r \in Uploads : UploadNoFile(r)
  \/ \E r \in Uploads, f \in FileIds : UploadText(r, f)
  \/ \E r \in Uploads, f \in FileIds : UploadPdf(r, f)
  \/ \E r \in Uploads : PdfParsed(r)
  \/ \E r \in Uploads : PdfFailed(r)
  \/ \E r \in Uploads, k \in 1..MaxChunks : EmbeddingResolve(r, k)
  \/ \E r \in Uploads, k \in 1..MaxChunks : EmbeddingReject(r, k)
  \/ \E r \in Uploads : StoreUpsert(r)
  \/ \E r \in Uploads : UploadRespondOk(r)
  \/ \E r \in Uploads : UpsertRejected(r)

Spec == Init /\ [][Next]_vars

(***************************************************************************)
(* Claims about uploadDocument, checked under Spec.                        *)
(***************************************************************************)
Whitespace == {" ", "\n", "\t", "\r"}

\* The text is empty or consists of whitespace only.
Blank(text) == \A k \in 1..Len(text) : text[k] \in Whitespace

\* The records request r has in the index.
StoredBy(r) == {rec \in store : rec.upload = r}

UploadDone(r) == upPc[r] = "done"

\* Request r carried a file whose text was extracted.
TextExtracted(r) == upCalls[r].chunkText > 0

\* C5: an upload whose extracted text is empty or whitespace-only is answered
\* 400, and in that request no embedding call and no upsert call is made.
C5_BlankTextRejected ==
  \A r \in Uploads :
    (TextExtracted(r) /\ Blank(Files[upFile[r]].text)) =>
      /\ upCalls[r].getEmbedding = 0
      /\ upCalls[r].upsert = 0
      /\ (UploadDone(r) => upRes[r] = <<400>>)

\* Request r had no file (and was answered), or carried a PDF whose text
\* extraction fails.
BadUpload(r) ==
  \/ UploadDone(r) /\ upFile[r] = 0
  \/ upFile[r] # 0 /\ IsPdf(upFile[r]) /\ ~Files[upFile[r]].parseable

\* C6: an upload with no file, or with a PDF whose extraction fails, is
\* answered 400 and does no chunking, no embedding call, no namespace
\* creation and no upsert; it leaves nothing in the vector store.
C6_BadUploadRejected ==
  \A r \in Uploads :
    BadUpload(r) =>
      /\ upCalls[r] = NoCalls
      /\ upChunks[r] = <<>> /\ upEmb[r] = <<>>
      /\ upNamespace[r] = 0
      /\ upUpserts[r] = <<>>
      /\ StoredBy(r) = {}
      /\ upRes[r] \in {<<>>, <<400>>}
      /\ (UploadDone(r) => upRes[r] = <<400>>)

\* One request without a file and one with a corrupt PDF have been answered
\* while the store holds the records of neither.
C6_Witness ==
  \E r1, r2 \in Uploads :
    /\ UploadDone(r1) /\ upFile[r1] = 0 /\ upRes[r1] = <<400>>
    /\ UploadDone(r2) /\ upFile[r2] = 3 /\ upRes[r2] = <<400>>

\* C7: every upload upserts all its records under exactly one namespace,
\* the one it created, and no namespace holds records of two uploads.
C7_NamespacePerUpload ==
  /\ \A r \in Uploads : upCalls[r].uuidv4 <= 1
  /\ \A r \in Uploads : \A k \in 1..Len(upUpserts[r]) :
       /\ upCalls[r].uuidv4 = 1
       /\ upUpserts[r][k].namespace = upNamespace[r]
  /\ \A rec \in store :
       rec.namespace # 0 /\ rec.namespace = upNamespace[rec.upload]
  /\ \A r1, r2 \in Uploads :
       (r1 # r2 /\ upNamespace[r1] # 0) => upNamespace[r1] # upNamespace[r2]
  /\ \A rec1, rec2 \in store :
       rec1.namespace = rec2.namespace => rec1.upload = rec2.upload

\* Two uploads of the same document have both stored their records.
C7_Witness ==
  \E r1, r2 \in Uploads :
    /\ r1 # r2
    /\ upFile[r1] = 4 /\ upFile[r2] = 4
    /\ Cardinality(StoredBy(r1)) = MaxChunks
    /\ Cardinality(StoredBy(r2)) = MaxChunks

SomeRejected(r) == \E k \in 1..Len(upEmb[r]) : upEmb[r][k] = Rejected

\* C8: if any embedding call of an upload fails, whichever it is and in
\* whatever order the calls complete, upsert is never called for that
\* request, none of its vectors reaches the store, and the answer is 500.
C8_EmbeddingFailureAborts ==
  \A r \in Uploads :
    SomeRejected(r) =>
      /\ upCalls[r].upsert = 0 /\ upUpserts[r] = <<>>
      /\ StoredBy(r) = {}
      /\ upRes[r] = <<500>>

\* The last embedding call of an upload failed after an earlier one had
\* resolved, and in another upload the first call failed and a later one
\* resolved afterwards.
C8_Witness ==
  \E r1, r2 \in Uploads :
    /\ r1 # r2
    /\ Len(upEmb[r1]) = MaxChunks /\ Len(upEmb[r2]) = MaxChunks
    /\ Resolved(upEmb[r1][1]) /\ upEmb[r1][MaxChunks] = Rejected
    /\ upEmb[r2][1] = Rejected /\ Resolved(upEmb[r2][MaxChunks])
    /\ upRes[r1] = <<500>> /\ upRes[r2] = <<500>>

\* C9: 200 is sent only after every embedding has resolved and one batch
\* upsert holding all the upload's records has been stored; upsert is called
\* at most once per upload and never before all embeddings have resolved;
\* an upload answered otherwise has left no vectors in the store.
C9_AllOrNothing ==
  \A r \in Uploads :
    /\ upCalls[r].upsert <= 1 /\ Len(upUpserts[r]) = upCalls[r].upsert
    /\ upCalls[r].upsert = 1 => AllResolved(upEmb[r])
    /\ 200 \in {upRes[r][k] : k \in 1..Len(upRes[r])} =>
         /\ AllResolved(upEmb[r])
         /\ Len(upUpserts[r]) = 1
         /\ Len(upUpserts[r][1].vectors) = Len(upChunks[r])
         /\ Cardinality(StoredBy(r)) = Len(upChunks[r])
         /\ \A k \in 1..Len(upChunks[r]) :
              \E rec \in StoredBy(r) :
                /\ rec.id = upUpserts[r][1].vectors[k].id
                /\ rec.values = upUpserts[r][1].vectors[k].values
                /\ rec.metadata = upUpserts[r][1].vectors[k].metadata
    /\ (UploadDone(r) /\ upRes[r] # <<200>>) => StoredBy(r) = {}

\* One upload of the long document was answered 200 with all its records
\* stored, another was answered 500 after its upsert call was rejected.
C9_Witness ==
  \E r1, r2 \in Uploads :
    /\ upFile[r1] = 4 /\ upRes[r1] = <<200>>
    /\ Cardinality(StoredBy(r1)) = MaxChunks
    /\ upFile[r2] = 4 /\ upRes[r2] = <<500>> /\ upCalls[r2].upsert = 1

\* C10: the batch passed to upsert has one record per chunk, and record i
\* has id <originalname>-chunk-<i>, the text of chunk i and the embedding
\* returned for chunk i, whatever the order of completion.
C10_BatchRecords ==
  \A r \in Uploads :
    upUpserts[r] # <<>> =>
      LET batch == upUpserts[r][1].vectors
          text == Files[upFile[r]].text
          step == DefaultChunkSize - DefaultOverlap
          n == CeilDiv(Len(text), step)
      IN  /\ Len(batch) = n
          /\ \A i \in 0..(n - 1) :
               LET chunk == SubSeq(text, i * step + 1,
                                   Min(i * step + DefaultChunkSize, Len(text)))
               IN  /\ batch[i + 1].id =
                        Files[upFile[r]].originalname
                          \o <<"-", "c", "h", "u", "n", "k", "-">>
                          \o <<DigitChar[i + 1]>>
                   /\ batch[i + 1].metadata = [text |-> chunk]
                   /\ upChunks[r][i + 1] = chunk
                   /\ Resolved(upEmb[r][i + 1])
                   /\ batch[i + 1].values = upEmb[r][i + 1].values
                   /\ batch[i + 1].values = EmbeddingOf(chunk)

\* An upload whose last embedding completed first was answered 200.
C10_Witness ==
  \E r \in Uploads :
    /\ upRes[r] = <<200>>
    /\ Len(upChunks[r]) = MaxChunks
    /\ upOutOfOrder[r]
    /\ Len(upUpserts[r][1].vectors) = MaxChunks

(***************************************************************************)
(* queryDocuments (ragController.js 97-185) and the pure functions it      *)
(* uses.  Scores are cosine similarities; they are represented in          *)
(* hundredths, so that 0.3 is 30.                                          *)
(***************************************************************************)
UpperCase ==
  <<"A", "B", "C", "D", "E", "F", "G", "H", "I", "J", "K", "L", "M", "N",
  "O", "P", "Q", "R", "S", "T", "U", "V", "W", "X", "Y", "Z">>

LowerCase ==
  <<"a", "b", "c", "d", "e", "f", "g", "h", "i", "j", "k", "l", "m", "n",
  "o", "p", "q", "r", "s", "t", "u", "v", "w", "x", "y", "z">>

\* Variant: the question is compared as typed.
ToLowerCase_Identity(s) == s

\* String.prototype.toLowerCase, character by character.
ToLowerCase(s) ==
  [k \in 1..Len(s) |->
     IF \E j \in 1..Len(UpperCase) : UpperCase[j] = s[k]
     THEN LowerCase[CHOOSE j \in 1..Len(UpperCase) : UpperCase[j] = s[k]]
     ELSE s[k]]

\* The 0-based positions at which pat occurs in s.
Occurrences(s, pat) ==
  {i \in 0..(Len(s) - Len(pat)) : SubSeq(s, i + 1, i + Len(pat)) = pat}

\* String.prototype.includes
Includes(s, pat) == Occurrences(s, pat) # {}

\* String.prototype.indexOf: the first occurrence, -1 when there is none.
IndexOf(s, pat) ==
  IF Occurrences(s, pat) = {} THEN -1
  ELSE CHOOSE i \in Occurrences(s, pat) :
         \A j \in Occurrences(s, pat) : i <= j

\* String.prototype.lastIndexOf: the last occurrence, -1 when there is none.
LastIndexOf(s, pat) ==
  IF Occurrences(s, pat) = {} THEN -1
  ELSE CHOOSE i \in Occurrences(s, pat) :
         \A j \in Occurrences(s, pat) : j <= i

\* String.prototype.substring: arguments are clamped to 0..length and
\* swapped when the first exceeds the second.
Substring(s, start, end) ==
  LET a == Min(Max(start, 0), Len(s))
      b == Min(Max(end, 0), Len(s))
  IN  SubSeq(s, Min(a, b) + 1, Max(a, b))

\* Variant: the id is cut at the first occurrence of "-chunk-".
FileNameOf_FirstOccurrence(id) == Substring(id, 0, IndexOf(id, ChunkSuffix))

\* ragController.js 148: match.id.substring(0, match.id.lastIndexOf("-chunk-"))
FileNameOf(id) == Substring(id, 0, LastIndexOf(id, ChunkSuffix))

\* Array.prototype.join
RECURSIVE Join(_, _)
Join(texts, sep) ==
  IF texts = <<>> THEN <<>>
  ELSE IF Len(texts) = 1 THEN texts[1]
  ELSE texts[1] \o sep \o Join(Tail(texts), sep)

TopK == 12

\* scoreThreshold = 0.3, in hundredths.
ScoreThreshold == 30

FallbackCount == 5

\* The scores the index may report: below, at and above the threshold.
Scores == {20, 30, 60, 90}

\* The answer texts of the two canned responses and of the provider.
NoDocumentsAnswer ==
  "No documents have been uploaded yet. Please upload a document first."
NoRelevantAnswer ==
  "I couldn't find any relevant information in the uploaded documents"
GeneratedAnswer == "generated"

SummaryInstruction ==
  <<"S", "u", "m", "m", "a", "r", "i", "z", "e", " ", "t", "h", "e", " ",
  "f", "o", "l", "l", "o", "w", "i", "n", "g", " ", "c", "o", "n", "t", "e",
  "n", "t", ":">>

summaryKeywords ==
  << <<"s", "u", "m", "m", "a", "r", "y">>,
     <<"s", "u", "m", "m", "a", "r", "i", "z", "e">>,
     <<"o", "v", "e", "r", "v", "i", "e", "w">>,
     <<"m", "a", "i", "n", " ", "i", "d", "e", "a">>,
     <<"m", "a", "i", "n", " ", "p", "o", "i", "n", "t", "s">>,
     <<"g", "i", "s", "t">> >>

\* summaryKeywords.some((k) => question.toLowerCase().includes(k))
isSummaryRequest(question) ==
  \E k \in 1..Len(summaryKeywords) :
    Includes(ToLowerCase(question), summaryKeywords[k])

\* indexStats.namespaces: the namespaces that hold at least one record.
NamespacesOf(st) == {rec.namespace : rec \in st}

\* Object.keys(indexStats.namespaces), listed in ascending order.
RECURSIVE Ascending(_)
Ascending(S) ==
  IF S = {} THEN <<>>
  ELSE LET least == CHOOSE n \in S : \A m \in S : n <= m
       IN  <<least>> \o Ascending(S \ {least})

NamespaceRecords(st, ns) == {rec \in st : rec.namespace = ns}

\* A match as the index returns it with includeMetadata: true.
Match(rec, score) ==
  [id |-> rec.id, score |-> score, metadata |-> rec.metadata]

\* The records of a namespace ranked by descending score.
RECURSIVE Ranked(_, _)
Ranked(recs, sc) ==
  IF recs = {} THEN <<>>
  ELSE LET best == CHOOSE r \in recs : \A o \in recs : sc[o] <= sc[r]
       IN  <<Match(best, sc[best])>> \o Ranked(recs \ {best}, sc)

\* Array.prototype.slice(0, n)
SliceTo(s, n) == SubSeq(s, 1, Min(n, Len(s)))

\* What namespace(ns).query({vector, topK, includeMetadata}) may resolve
\* with: the topK best records of the namespace under some scoring, or no
\* match at all when the index does not serve the namespace.
QueryResponses(st, ns, topK) ==
  {<<>>} \cup {SliceTo(Ranked(NamespaceRecords(st, ns), sc), topK) :
                 sc \in [NamespaceRecords(st, ns) -> Scores]}

\* Insertion of a match behind the matches that do not score lower.
InsertByScore(sorted, m) ==
  LET k == Cardinality({i \in 1..Len(sorted) : sorted[i].score >= m.score})
  IN  SubSeq(sorted, 1, k) \o <<m>> \o SubSeq(sorted, k + 1, Len(sorted))

\* Variant: the merged list is left in the order of the namespaces.
SortByScore_Unsorted(s) == s

\* allMatches.sort((a, b) => b.score - a.score): descending and stable.
RECURSIVE SortByScore(_)
SortByScore(s) ==
  IF s = <<>> THEN <<>>
  ELSE InsertByScore(SortByScore(SubSeq(s, 1, Len(s) - 1)), s[Len(s)])

\* Variant: a match at the threshold is kept.
AboveThreshold_AtOrAbove(match) == match.score >= ScoreThreshold

\* (match) => match.score > scoreThreshold
AboveThreshold(match) == match.score > ScoreThreshold

\* Variant: no fallback when the threshold removes every match.
RelevantMatches_NoFallback(sorted) == SelectSeq(sorted, AboveThreshold)

\* ragController.js 127-133: the matches above the threshold, or the first
\* five when there is none.
RelevantMatches(sorted) ==
  LET relevantMatches == SelectSeq(sorted, AboveThreshold)
  IN  IF Len(relevantMatches) = 0 /\ Len(sorted) > 0
      THEN SliceTo(sorted, FallbackCount)
      ELSE relevantMatches

BlankLine == <<"\n", "\n">>

\* relevantMatches.map((match) => match.metadata.text).join("\n\n")
Context(relevantMatches) ==
  Join([k \in 1..Len(relevantMatches) |-> relevantMatches[k].metadata.text],
       BlankLine)

\* relevantMatches.map((match) => ({fileName, text, score}))
Sources(relevantMatches) ==
  [k \in 1..Len(relevantMatches) |->
     [fileName |-> FileNameOf(relevantMatches[k].id),
      text |-> relevantMatches[k].metadata.text,
      score |-> relevantMatches[k].score]]

\* The question of the request: req.body.question may be missing.
MissingQuestion == [defined |-> FALSE, text |-> <<>>]
Question(text) == [defined |-> TRUE, text |-> text]

SummaryExample ==
  <<"C", "a", "n", " ", "y", "o", "u", " ", "g", "i", "v", "e", " ", "m",
  "e", " ", "a", " ", "s", "u", "m", "m", "a", "r", "y", "?">>

TerminationExample ==
  <<"W", "h", "a", "t", " ", "i", "s", " ", "t", "h", "e", " ", "t", "e",
  "r", "m", "i", "n", "a", "t", "i", "o", "n", " ", "c", "l", "a", "u", "s",
  "e", "?">>

\* The questions asked: none, the empty string, the two examples, one
\* question per keyword in mixed case, and two near misses.
Questions ==
  {MissingQuestion, Question(<<>>),
   Question(SummaryExample), Question(TerminationExample),
   Question(<<"S", "U", "M", "M", "A", "R", "I", "Z", "E", " ", "i", "t">>),
   Question(<<"O", "v", "e", "r", "v", "i", "e", "w">>),
   Question(<<"m", "a", "i", "n", " ", "i", "d", "e", "a">>),
   Question(<<"M", "a", "i", "n", " ", "P", "o", "i", "n", "t", "s">>),
   Question(<<"t", "h", "e", " ", "G", "I", "S", "T">>),
   Question(<<"m", "a", "i", "n", " ", " ", "i", "d", "e", "a">>),
   Question(<<"s", "u", "m", " ", "m", "a", "r", "y">>)}

\* The questions asked of an index: every question when it holds few
\* namespaces, one question when it holds many (what the handler does with
\* the matches does not depend on the question, and what it does with the
\* question does not depend on the matches).
QuestionsAsked(st) ==
  IF Cardinality(NamespacesOf(st)) <= FallbackCount
  THEN Questions
  ELSE {Question(TerminationExample)}

\* The records an answered upload of file f leaves under namespace ns.
StoredDocument(ns, f) ==
  LET chunks == chunkText(Files[f].text, DefaultChunkSize, DefaultOverlap)
  IN  UpsertRecords({}, ns, ns,
                    BuildVectors(Files[f].originalname, chunks,
                                 [k \in 1..Len(chunks) |->
                                    EmbeddingOf(chunks[k])]))

\* The index as earlier uploads left it: empty, holding the long document
\* and the short one, or holding more short documents than the fallback
\* keeps.
QueryStores ==
  { {},
    StoredDocument(1, 4) \cup StoredDocument(2, 2),
    UNION {StoredDocument(ns, 2) : ns \in 1..(FallbackCount + 1)} }

\* The server is listening, no upload is in progress, a query may arrive.
QueryInit ==
  /\ ChunkIdle
  /\ IdIdle
  /\ FaissIdle
  /\ CorsIdle
  /\ ChatIdle
  /\ QueryIdle
  /\ UploadsIdle
  /\ serverState = "listening"
  /\ pineconeIndex = TRUE
  /\ store \in QueryStores

QueryRespond(status, answer, sources) ==
  qRes' = Append(qRes, [status |-> status, answer |-> answer,
                        sources |-> sources])

\* Variant: the catch only logs the error and sends nothing.
QueryCatch_NoResponse(callee) ==
  /\ qFailed' = callee
  /\ qPc' = "done"
  /\ UNCHANGED qRes

\* ragController.js 176-184: the catch answers 500.
QueryCatch(callee) ==
  /\ qFailed' = callee
  /\ qPc' = "done"
  /\ QueryRespond(500, "", <<>>)

\* pineconeIndex.namespace(namespace).query({vector, topK, includeMetadata})
QueryCall(namespace, vector) ==
  [namespace |-> namespace, vector |-> vector, topK |-> TopK]

\* Variant: the matches of a namespace replace those collected before.
PushAll_Overwrite(allMatches, matches) == matches

\* allMatches.push(...queryResponse.matches)
PushAll(allMatches, matches) == allMatches \o matches

\* ragController.js 161-173: the first argument of generateAnswer.
UserQuery(question) ==
  IF isSummaryRequest(question) THEN SummaryInstruction ELSE question

GenerateCall(userQuery, context) ==
  [userQuery |-> userQuery, context |-> context]

\* ragController.js 99-101: the handler reads the question, gets the index
\* and calls getEmbedding(question).
QueryReceive(question) ==
  /\ serverState = "listening"
  /\ qPc = "idle"
  /\ qQuestion' = question
  /\ qUploaded' = {r \in Uploads : upRes[r] = <<200>>}
  /\ IF ~pineconeIndex
     THEN \* getPineconeIndex throws
          /\ qCalls' = [qCalls EXCEPT !.getPineconeIndex = @ + 1]
          /\ QueryCatch("getPineconeIndex")
     ELSE /\ qCalls' = [qCalls EXCEPT !.getPineconeIndex = @ + 1,
                                      !.getEmbedding = @ + 1]
          /\ qPc' = "awaitEmbedding"
          /\ UNCHANGED <<qFailed, qRes>>
  /\ UNCHANGED <<ckVars, srvVars, upVars, idVars, fsVars, corsVars, uiVars,
                 qEmbedding, qNamespaces,
                 qQueries, qAnswers, qAllMatches, qRelevant, qGenerate>>

\* geminiClient.js 20-21, ragController.js 104: the embedding of the
\* question resolves and the handler calls describeIndexStats.  The provider
\* has nothing to embed when the question is missing.
QueryEmbedded ==
  /\ qPc = "awaitEmbedding"
  /\ qQuestion.defined
  /\ qEmbedding' = EmbeddingOf(qQuestion.text)
  /\ qCalls' = [qCalls EXCEPT !.describeIndexStats = @ + 1]
  /\ qPc' = "awaitStats"
  /\ UNCHANGED <<ckVars, srvVars, upVars, idVars, fsVars, corsVars, uiVars,
                 qUploaded,
                 qQuestion, qNamespaces,
                 qQueries, qAnswers, qAllMatches, qRelevant, qGenerate,
                 qFailed, qRes>>

\* geminiClient.js 22-25: the embedding of the question rejects.
QueryEmbeddingFailed ==
  /\ qPc = "awaitEmbedding"
  /\ QueryCatch("getEmbedding")
  /\ UNCHANGED <<ckVars, srvVars, upVars, idVars, fsVars, corsVars, uiVars,
                 qUploaded,
                 qQuestion, qEmbedding,
                 qNamespaces, qQueries, qAnswers, qAllMatches, qRelevant,
                 qGenerate, qCalls>>

\* Variant: without the test for an empty listing the handler falls through
\* the loop and answers with the other canned answer.
QueryStats_NoEmptyCheck ==
  /\ qPc = "awaitStats"
  /\ LET namespaces == Ascending(NamespacesOf(store))
     IN  /\ qNamespaces' = namespaces
         /\ IF Len(namespaces) = 0
            THEN /\ qPc' = "done"
                 /\ QueryRespond(200, NoRelevantAnswer, <<>>)
                 /\ UNCHANGED <<qQueries, qCalls>>
            ELSE /\ qQueries' = <<QueryCall(namespaces[1], qEmbedding)>>
                 /\ qCalls' = [qCalls EXCEPT !.query = @ + 1]
                 /\ qPc' = "awaitQuery"
                 /\ UNCHANGED qRes
  /\ UNCHANGED <<ckVars, srvVars, upVars, idVars, fsVars, corsVars, uiVars,
                 qUploaded,
                 qQuestion, qEmbedding,
                 qAnswers, qAllMatches, qRelevant, qGenerate, qFailed>>

\* ragController.js 104-121: describeIndexStats resolves.  With no namespace
\* the handler answers 200 with the canned answer; otherwise it queries the
\* first namespace.
QueryStats ==
  /\ qPc = "awaitStats"
  /\ LET namespaces == Ascending(NamespacesOf(store))
     IN  /\ qNamespaces' = namespaces
         /\ IF Len(namespaces) = 0
            THEN /\ qPc' = "done"
                 /\ QueryRespond(200, NoDocumentsAnswer, <<>>)
                 /\ UNCHANGED <<qQueries, qCalls>>
            ELSE /\ qQueries' = <<QueryCall(namespaces[1], qEmbedding)>>
                 /\ qCalls' = [qCalls EXCEPT !.query = @ + 1]
                 /\ qPc' = "awaitQuery"
                 /\ UNCHANGED qRes
  /\ UNCHANGED <<ckVars, srvVars, upVars, idVars, fsVars, corsVars, uiVars,
                 qUploaded,
                 qQuestion, qEmbedding,
                 qAnswers, qAllMatches, qRelevant, qGenerate, qFailed>>

\* ragController.js 104: describeIndexStats rejects.
QueryStatsFailed ==
  /\ qPc = "awaitStats"
  /\ QueryCatch("describeIndexStats")
  /\ UNCHANGED <<ckVars, srvVars, upVars, idVars, fsVars, corsVars, uiVars,
                 qUploaded,
                 qQuestion, qEmbedding,
                 qNamespaces, qQueries, qAnswers, qAllMatches, qRelevant,
                 qGenerate, qCalls>>

\* Variant: without the test for an empty list the handler calls
\* generateAnswer with an empty context.
AfterLoop_NoEmptyCheck(allMatches) ==
  LET relevantMatches == RelevantMatches(SortByScore(allMatches))
  IN  /\ qRelevant' = relevantMatches
      /\ qGenerate' =
           Append(qGenerate,
                  GenerateCall(UserQuery(qQuestion.text),
                               Context(relevantMatches)))
      /\ qCalls' = [qCalls EXCEPT !.generateAnswer = @ + 1]
      /\ qPc' = "awaitGenerate"
      /\ UNCHANGED <<qFailed, qRes>>

\* ragController.js 125-173: after the loop the handler sorts and filters
\* the matches; with none left it answers 200 with the canned answer,
\* otherwise it builds the context and calls generateAnswer.  A missing
\* question makes question.toLowerCase() throw into the catch.
AfterLoop(allMatches) ==
  LET relevantMatches == RelevantMatches(SortByScore(allMatches))
  IN  /\ qRelevant' = relevantMatches
      /\ IF Len(relevantMatches) = 0
         THEN /\ qPc' = "done"
              /\ QueryRespond(200, NoRelevantAnswer, <<>>)
              /\ UNCHANGED <<qGenerate, qFailed>>
              /\ qCalls' = qCalls
         ELSE IF ~qQuestion.defined
         THEN /\ QueryCatch("")
              /\ UNCHANGED qGenerate
              /\ qCalls' = qCalls
         ELSE /\ qGenerate' =
                   Append(qGenerate,
                          GenerateCall(UserQuery(qQuestion.text),
                                       Context(relevantMatches)))
              /\ qCalls' = [qCalls EXCEPT !.generateAnswer = @ + 1]
              /\ qPc' = "awaitGenerate"
              /\ UNCHANGED <<qFailed, qRes>>

\* The answers the index may give to the similarity query in flight.
PendingResponses ==
  IF qPc = "awaitQuery"
  THEN QueryResponses(store, qQueries[Len(qQueries)].namespace,
                      qQueries[Len(qQueries)].topK)
  ELSE {}

\* ragController.js 116-123: the similarity query of a namespace resolves
\* with its matches, which are pushed onto allMatches; the handler queries
\* the next namespace or leaves the loop.
QueryMatched(matches) ==
  /\ qPc = "awaitQuery"
  /\ matches \in PendingResponses
  /\ qAnswers' = Append(qAnswers, matches)
  /\ qAllMatches' = PushAll(qAllMatches, matches)
  /\ IF Len(qQueries) < Len(qNamespaces)
     THEN /\ qQueries' =
               Append(qQueries,
                      QueryCall(qNamespaces[Len(qQueries) + 1], qEmbedding))
          /\ qCalls' = [qCalls EXCEPT !.query = @ + 1]
          /\ UNCHANGED <<qPc, qRelevant, qGenerate, qFailed, qRes>>
     ELSE /\ AfterLoop(PushAll(qAllMatches, matches))
          /\ UNCHANGED qQueries
  /\ UNCHANGED <<ckVars, srvVars, upVars, idVars, fsVars, corsVars, uiVars,
                 qUploaded,
                 qQuestion, qEmbedding,
                 qNamespaces>>

\* ragController.js 117-121: the similarity query of a namespace rejects.
QueryNamespaceFailed ==
  /\ qPc = "awaitQuery"
  /\ QueryCatch("query")
  /\ UNCHANGED <<ckVars, srvVars, upVars, idVars, fsVars, corsVars, uiVars,
                 qUploaded,
                 qQuestion, qEmbedding,
                 qNamespaces, qQueries, qAnswers, qAllMatches, qRelevant,
                 qGenerate, qCalls>>

\* geminiClient.js 48-51, ragController.js 175: generateAnswer resolves with
\* the text of the provider and the handler answers 200.
QueryGenerated ==
  /\ qPc = "awaitGenerate"
  /\ qPc' = "done"
  /\ QueryRespond(200, GeneratedAnswer, Sources(qRelevant))
  /\ UNCHANGED <<ckVars, srvVars, upVars, idVars, fsVars, corsVars, uiVars,
                 qUploaded,
                 qQuestion, qEmbedding,
                 qNamespaces, qQueries, qAnswers, qAllMatches, qRelevant,
                 qGenerate, qCalls, qFailed>>

\* Variant: the handler calls generateAnswer again after a failure.
QueryGenerateFailed_Retry ==
  /\ qPc = "awaitGenerate"
  /\ qGenerate' = Append(qGenerate, qGenerate[Len(qGenerate)])
  /\ qCalls' = [qCalls EXCEPT !.generateAnswer = @ + 1]
  /\ QueryCatch("generateAnswer")
  /\ UNCHANGED <<ckVars, srvVars, upVars, idVars, fsVars, corsVars, uiVars,
                 qUploaded,
                 qQuestion, qEmbedding,
                 qNamespaces, qQueries, qAnswers, qAllMatches, qRelevant>>

\* geminiClient.js 52-59: generateContent rejects; generateAnswer logs the
\* available models and rethrows.
QueryGenerateFailed ==
  /\ qPc = "awaitGenerate"
  /\ QueryCatch("generateAnswer")
  /\ UNCHANGED <<ckVars, srvVars, upVars, idVars, fsVars, corsVars, uiVars,
                 qUploaded,
                 qQuestion, qEmbedding,
                 qNamespaces, qQueries, qAnswers, qAllMatches, qRelevant,
                 qGenerate, qCalls>>

QueryNext ==
  \/ \E question \in QuestionsAsked(store) : QueryReceive(question)
  \/ QueryEmbedded
  \/ QueryEmbeddingFailed
  \/ QueryStats
  \/ QueryStatsFailed
  \/ \E matches \in PendingResponses : QueryMatched(matches)
  \/ QueryNamespaceFailed
  \/ QueryGenerated
  \/ QueryGenerateFailed

SpecQuery == QueryInit /\ [][QueryNext]_vars

(***************************************************************************)
(* Claims about queryDocuments, checked under SpecQuery.                   *)
(***************************************************************************)
qReceived == qPc # "idle"
qDone == qPc = "done"
qStatuses == [k \in 1..Len(qRes) |-> qRes[k].status]
NoQuestion == ~qQuestion.defined \/ qQuestion.text = <<>>

\* C11: a query request whose question is missing or is the empty string is
\* answered with 400, and no embedding, vector-store or generation call is
\* made for it.
C11_MissingQuestionRejected ==
  (qReceived /\ NoQuestion) =>
    /\ qCalls.getEmbedding = 0
    /\ qCalls.describeIndexStats = 0
    /\ qCalls.query = 0
    /\ qCalls.generateAnswer = 0
    /\ (qDone => qStatuses = <<400>>)

\* describeIndexStats has resolved with no namespace.
ListedNoNamespace ==
  /\ qCalls.describeIndexStats = 1
  /\ qPc # "awaitStats"
  /\ qFailed # "describeIndexStats"
  /\ qNamespaces = <<>>

\* C12: a query made when the index lists no namespace is answered with 200,
\* the canned "no documents" answer and no sources; no similarity query and
\* no generation call is made.
C12_NoDocuments ==
  ListedNoNamespace =>
    /\ qRes = <<[status |-> 200, answer |-> NoDocumentsAnswer,
                 sources |-> <<>>]>>
    /\ qQueries = <<>>
    /\ qCalls.query = 0
    /\ qGenerate = <<>>
    /\ qCalls.generateAnswer = 0

C12_Witness == ListedNoNamespace /\ qDone /\ store = {} /\ Len(qRes) = 1

\* The loop over the namespaces has completed: relevantMatches is computed.
LoopDone == Len(qNamespaces) > 0 /\ Len(qAnswers) = Len(qNamespaces)

Count(s, m) == Cardinality({i \in 1..Len(s) : s[i] = m})
Range(s) == {s[i] : i \in 1..Len(s)}
ScoresOf(s) == [k \in 1..Len(s) |-> s[k].score]

\* C13 (as stated): when some retrieved match scores at or above the
\* threshold, the surviving matches are exactly the retrieved matches that
\* score at or above the threshold (a match at the threshold is kept).
C13_AtOrAboveKept ==
  (LoopDone /\ \E m \in Range(qAllMatches) : m.score >= ScoreThreshold) =>
    /\ Range(qRelevant) \subseteq Range(qAllMatches)
    /\ \A m \in Range(qAllMatches) :
         Count(qRelevant, m) =
           IF m.score >= ScoreThreshold THEN Count(qAllMatches, m) ELSE 0

\* C13 (amended): when some retrieved match scores strictly above the
\* threshold, the surviving matches are exactly the retrieved matches that
\* score strictly above the threshold (a match at the threshold is dropped).
C13_AboveKept ==
  (LoopDone /\ \E m \in Range(qAllMatches) : m.score > ScoreThreshold) =>
    /\ Range(qRelevant) \subseteq Range(qAllMatches)
    /\ \A m \in Range(qAllMatches) :
         Count(qRelevant, m) =
           IF m.score > ScoreThreshold THEN Count(qAllMatches, m) ELSE 0

\* Scores 0.9, 0.6 and 0.2 leave the first two as the sources of the answer.
C13_Witness ==
  /\ LoopDone
  /\ Range(ScoresOf(qAllMatches)) = {90, 60, 20}
  /\ ScoresOf(qRelevant) = <<90, 60>>
  /\ Len(qRes) = 1
  /\ qRes[1].status = 200
  /\ ScoresOf(qRes[1].sources) = <<90, 60>>

NoneAboveThreshold ==
  \A m \in Range(qAllMatches) : m.score <= ScoreThreshold

\* C14: when the merged match list is non-empty but the threshold removes
\* every match, the query falls back to the min(5, number of matches)
\* highest-scoring matches; so a query with at least one retrieved match has
\* a non-empty list of sources and calls generation.
C14_Fallback ==
  (LoopDone /\ Len(qAllMatches) > 0) =>
    /\ NoneAboveThreshold =>
         /\ Len(qRelevant) = Min(FallbackCount, Len(qAllMatches))
         /\ \A m \in Range(qRelevant) :
              Count(qRelevant, m) <= Count(qAllMatches, m)
         /\ \A m \in Range(qAllMatches), k \in Range(qRelevant) :
              Count(qRelevant, m) < Count(qAllMatches, m) =>
                m.score <= k.score
    /\ Len(qRelevant) > 0
    /\ Len(qGenerate) = 1
    /\ qCalls.generateAnswer = 1
    /\ (qDone /\ qFailed = "") =>
         /\ Len(qRes) = 1
         /\ qRes[1].status = 200
         /\ Len(qRes[1].sources) = Len(qRelevant)

\* More matches than the fallback keeps, none above the threshold, and the
\* answer carries the five best.
C14_Witness ==
  /\ LoopDone
  /\ Len(qAllMatches) > FallbackCount
  /\ NoneAboveThreshold
  /\ \E m \in Range(qAllMatches) : m.score < ScoreThreshold
  /\ \E m \in Range(qAllMatches) : m.score = ScoreThreshold
  /\ Len(qRes) = 1
  /\ qRes[1].status = 200
  /\ Len(qRes[1].sources) = FallbackCount

TextsOf(sources) == [k \in 1..Len(sources) |-> sources[k].text]

\* Where the k-th text starts in a string of texts set two characters apart.
RECURSIVE OffsetOf(_, _)
OffsetOf(texts, k) ==
  IF k = 1 THEN 0 ELSE OffsetOf(texts, k - 1) + Len(texts[k - 1]) + 2

\* c is the texts in order, one each, with a blank line between neighbours.
JoinedByBlankLines(c, texts) ==
  /\ Len(c) = OffsetOf(texts, Len(texts)) + Len(texts[Len(texts)])
  /\ \A k \in 1..Len(texts) :
       SubSeq(c, OffsetOf(texts, k) + 1,
              OffsetOf(texts, k) + Len(texts[k])) = texts[k]
  /\ \A k \in 2..Len(texts) :
       /\ c[OffsetOf(texts, k) - 1] = "\n"
       /\ c[OffsetOf(texts, k)] = "\n"

\* C15: in every 200 response with sources, the sources are in
\* non-increasing score order across the namespaces, and the context passed
\* to generation is the texts of the sources, in that order, one per source,
\* joined by a blank line.
C15_SourcesOrdered ==
  \A r \in 1..Len(qRes) :
    (qRes[r].status = 200 /\ Len(qRes[r].sources) > 0) =>
      /\ \A i, j \in 1..Len(qRes[r].sources) :
           i < j => qRes[r].sources[i].score >= qRes[r].sources[j].score
      /\ Len(qGenerate) = 1
      /\ JoinedByBlankLines(qGenerate[1].context, TextsOf(qRes[r].sources))

\* A source of the second document stands between two of the first.
C15_Witness ==
  /\ Len(qRes) = 1
  /\ qRes[1].status = 200
  /\ Len(qRes[1].sources) >= 3
  /\ qRes[1].sources[1].fileName = qRes[1].sources[3].fileName
  /\ qRes[1].sources[2].fileName # qRes[1].sources[1].fileName
  /\ qRes[1].sources[1].score > qRes[1].sources[3].score

\* C16: when namespaces exist but their queries return no match at all, the
\* query is answered with 200, the canned "no relevant information" answer
\* and no sources, and generateAnswer is not called.
C16_NoMatches ==
  (LoopDone /\ Len(qAllMatches) = 0) =>
    /\ qRes = <<[status |-> 200, answer |-> NoRelevantAnswer,
                 sources |-> <<>>]>>
    /\ qGenerate = <<>>
    /\ qCalls.generateAnswer = 0

C16_Witness ==
  /\ LoopDone
  /\ Len(qNamespaces) >= 2
  /\ qCalls.query = Len(qNamespaces)
  /\ Len(qAllMatches) = 0
  /\ qDone
  /\ Len(qRes) = 1

(***************************************************************************)
(* The record id: built at upload time (ragController.js 70), decoded at   *)
(* query time (ragController.js 148).                                      *)
(***************************************************************************)
NameAlphabet == {"a", "-", "7"}

\* The original filenames: every short name, the name of the example, and
\* names that contain, are, or end in a piece of "-chunk-".
FileNames ==
  SeqsUpTo(NameAlphabet, MaxNameLen)
  \cup {<<"r", "e", "p", "o", "r", "t", ".", "p", "d", "f">>,
        <<"a", "-", "c", "h", "u", "n", "k", "-", "1", ".", "t", "x", "t">>,
        <<"-", "c", "h", "u", "n", "k", "-">>,
        <<"x", "-", "c", "h", "u", "n", "k">>,
        <<"-", "c", "h", "u", "n", "k", "-", "7", "-", "c", "h", "u", "n",
        "k", "-">>}

IdInit ==
  /\ ChunkIdle
  /\ ServerIdle
  /\ QueryIdle
  /\ FaissIdle
  /\ CorsIdle
  /\ ChatIdle
  /\ idName \in FileNames
  /\ idIndex \in 0..MaxChunkIndex
  /\ idId = <<>>
  /\ idFileName = <<>>
  /\ idPc = "named"

\* ragController.js 70: id: `${req.file.originalname}-chunk-${i}`
IdBuild ==
  /\ idPc = "named"
  /\ idId' = VectorId(idName, idIndex)
  /\ idPc' = "built"
  /\ UNCHANGED <<ckVars, srvVars, upVars, qVars, fsVars, corsVars, uiVars,
               idName, idIndex, idFileName>>

\* ragController.js 148: fileName derived from match.id
IdDerive ==
  /\ idPc = "built"
  /\ idFileName' = FileNameOf(idId)
  /\ idPc' = "derived"
  /\ UNCHANGED <<ckVars, srvVars, upVars, qVars, fsVars, corsVars, uiVars,
               idName, idIndex, idId>>

IdNext == IdBuild \/ IdDerive

SpecId == IdInit /\ [][IdNext]_vars

\* C17: for every original filename, also one that contains "-chunk-", and
\* every chunk index i, the fileName derived at query time from the id
\* built at upload time is the original filename.
C17_IdRoundTrip == idPc = "derived" => idFileName = idName

C17_Example ==
  <<"r", "e", "p", "o", "r", "t", ".", "p", "d", "f">>

\* A filename that contains "-chunk-" and a two-digit index, and the
\* example: "report.pdf-chunk-7" yields "report.pdf".
C17_Witness ==
  /\ idPc = "derived"
  /\ \/ Includes(idName, ChunkSuffix) /\ idIndex > 9
     \/ idName = C17_Example /\ idIndex = 7
  /\ idFileName = idName

\* The keywords of the claim.
C18_Keywords ==
  {<<"s", "u", "m", "m", "a", "r", "y">>,
   <<"s", "u", "m", "m", "a", "r", "i", "z", "e">>,
   <<"o", "v", "e", "r", "v", "i", "e", "w">>,
   <<"m", "a", "i", "n", " ", "i", "d", "e", "a">>,
   <<"m", "a", "i", "n", " ", "p", "o", "i", "n", "t", "s">>,
   <<"g", "i", "s", "t">>}

\* Character c is the lower-case letter d or its upper-case form.
SameLetter(c, d) ==
  c = d \/ \E j \in 1..Len(UpperCase) : UpperCase[j] = c /\ LowerCase[j] = d

\* The question contains a keyword, whatever the case of its letters.
HasKeyword(question) ==
  \E kw \in C18_Keywords :
    \E i \in 0..(Len(question) - Len(kw)) :
      \A j \in 1..Len(kw) : SameLetter(question[i + j], kw[j])

\* C18: generation receives the fixed instruction "Summarize the following
\* content:" exactly when the question contains, case-insensitively, one of
\* the keywords summary, summarize, overview, main idea, main points, gist,
\* and the question unchanged otherwise; either way with the context of the
\* retrieved matches.
C18_SummaryRouting ==
  \A g \in 1..Len(qGenerate) :
    /\ HasKeyword(qQuestion.text) =>
         qGenerate[g].userQuery = SummaryInstruction
    /\ ~HasKeyword(qQuestion.text) =>
         qGenerate[g].userQuery = qQuestion.text
    /\ qQuestion.text = SummaryExample =>
         qGenerate[g].userQuery = SummaryInstruction
    /\ qQuestion.text = TerminationExample =>
         qGenerate[g].userQuery = TerminationExample
    /\ JoinedByBlankLines(qGenerate[g].context,
                          [k \in 1..Len(qRelevant) |->
                             qRelevant[k].metadata.text])

\* An answered summary request in capitals.
C18_Witness ==
  /\ Len(qGenerate) = 1
  /\ qQuestion.text # ToLowerCase(qQuestion.text)
  /\ qQuestion.text # SummaryExample
  /\ qGenerate[1].userQuery = SummaryInstruction
  /\ Len(qRelevant) >= 2
  /\ Len(qRes) = 1
  /\ qRes[1].status = 200

(***************************************************************************)
(* The server with both routes: uploads of the short documents and one     *)
(* query, in any interleaving.                                             *)
(***************************************************************************)
\* The files of at most one chunk.  None of them is a PDF that parses, so
\* PdfParsed has no part in this specification.
ServeFiles == {f \in FileIds : Len(Files[f].text) <= DefaultChunkSize}

ServeQuestions == {MissingQuestion, Question(TerminationExample)}

ServeNext ==
  \/ ServerInitOk
  \/ ServerInitFail
  \/ \E r \in Uploads : UploadNoFile(r)
  \/ \E r \in Uploads, f \in ServeFiles : UploadText(r, f)
  \/ \E r \in Uploads, f \in ServeFiles : UploadPdf(r, f)
  \/ \E r \in Uploads : PdfFailed(r)
  \/ \E r \in Uploads, k \in 1..MaxChunks : EmbeddingResolve(r, k)
  \/ \E r \in Uploads, k \in 1..MaxChunks : EmbeddingReject(r, k)
  \/ \E r \in Uploads : StoreUpsert(r)
  \/ \E r \in Uploads : UploadRespondOk(r)
  \/ \E r \in Uploads : UpsertRejected(r)
  \/ \E question \in ServeQuestions : QueryReceive(question)
  \/ QueryEmbedded
  \/ QueryEmbeddingFailed
  \/ QueryStats
  \/ QueryStatsFailed
  \/ \E matches \in PendingResponses : QueryMatched(matches)
  \/ QueryNamespaceFailed
  \/ QueryGenerated
  \/ QueryGenerateFailed

SpecServe == Init /\ [][ServeNext]_vars

(***************************************************************************)
(* Claims about the two routes together, checked under SpecServe.          *)
(***************************************************************************)
RECURSIVE Flatten(_)
Flatten(lists) ==
  IF lists = <<>> THEN <<>> ELSE lists[1] \o Flatten(Tail(lists))

\* The handler has got past the listing and the loop without a failure.
qPastLoop == qPc \in {"awaitGenerate", "done"} /\ qFailed = ""

\* C19: for every namespace the listing returned, queryDocuments issues
\* exactly one similarity query, with the embedding of the question; the
\* merged list is the concatenation of the matches of those queries; and
\* the namespace of every upload answered 200 before the query request
\* arrived is queried.
C19_GlobalQuery ==
  /\ Len(qQueries) <= Len(qNamespaces)
  /\ \A k \in 1..Len(qQueries) :
       /\ qQueries[k].namespace = qNamespaces[k]
       /\ qQueries[k].vector = EmbeddingOf(qQuestion.text)
       /\ \A j \in 1..Len(qQueries) :
            qQueries[j].namespace = qQueries[k].namespace => j = k
  /\ qCalls.query = Len(qQueries)
  /\ qPastLoop =>
       /\ Len(qQueries) = Len(qNamespaces)
       /\ qAllMatches = Flatten(qAnswers)
       /\ \A r \in qUploaded :
            \E k \in 1..Len(qQueries) : qQueries[k].namespace = upNamespace[r]

\* Two uploads were answered 200 before the query arrived, both namespaces
\* were queried and both gave a match.
C19_Witness ==
  /\ qPastLoop
  /\ Cardinality(qUploaded) >= 2
  /\ Len(qQueries) >= 2
  /\ \A k \in 1..Len(qAnswers) : Len(qAnswers[k]) > 0
  /\ Len(qAllMatches) >= 2

\* The upsert call of upload r was made and has rejected: the handler is
\* done and the index holds nothing of the batch.
UpsertFailed(r) ==
  UploadDone(r) /\ upCalls[r].upsert > 0 /\ StoredBy(r) = {}

\* C20: in both handlers the failure of an external call is answered with
\* 500 and nothing else, and no call is retried: within a request each
\* embedding, upsert, per-namespace query and generation call is made at
\* most once.
C20_FailuresAnswered500 ==
  /\ \A r \in Uploads :
       /\ (SomeRejected(r) \/ UpsertFailed(r)) =>
            UploadDone(r) /\ upRes[r] = <<500>>
       /\ upCalls[r].getEmbedding <= Len(upChunks[r])
       /\ upCalls[r].upsert <= 1
       /\ Len(upUpserts[r]) <= 1
  /\ qFailed # "" =>
       qDone /\ qRes = <<[status |-> 500, answer |-> "", sources |-> <<>>]>>
  /\ Len(qRes) <= 1
  /\ qCalls.getEmbedding <= 1
  /\ qCalls.describeIndexStats <= 1
  /\ qCalls.query <= Len(qNamespaces)
  /\ \A j, k \in 1..Len(qQueries) :
       qQueries[j].namespace = qQueries[k].namespace => j = k
  /\ qCalls.generateAnswer <= 1
  /\ Len(qGenerate) <= 1

\* An upload whose upsert of a record failed and a query whose generation
\* failed, both answered 500.
C20_Witness ==
  /\ \E r \in Uploads :
       /\ UpsertFailed(r)
       /\ Len(upChunks[r]) > 0
       /\ upRes[r] = <<500>>
  /\ qFailed = "generateAnswer"
  /\ qCalls.generateAnswer = 1
  /\ Len(qRes) = 1
  /\ qRes[1].status = 500

\* No request has reached a handler of the Pinecone server.
NoRequestHandled ==
  /\ \A r \in Uploads : upPc[r] = "idle" /\ upRes[r] = <<>>
  /\ qPc = "idle"
  /\ qRes = <<>>

\* getPineconeIndex threw in upload r: the handler called it and never went
\* on to draw the namespace.
UploadIndexMissing(r) ==
  upCalls[r].getPineconeIndex > 0 /\ upCalls[r].uuidv4 = 0

\* C22: the server listens only after initializePinecone has succeeded; when
\* it fails the process exits and never listens, so no request is handled
\* before or without the index, and getPineconeIndex never throws in a
\* handler.
C22_ListenAfterInit ==
  /\ [](/\ serverState = "listening" => pineconeIndex
        /\ serverState # "listening" => NoRequestHandled
        /\ serverState = "exited" => ~pineconeIndex
        /\ \A r \in Uploads : ~UploadIndexMissing(r)
        /\ qFailed # "getPineconeIndex")
  /\ [][serverState = "exited" => serverState' = "exited"]_vars

\* The listening server has answered an upload and a query that both used
\* the index.
C22_Witness ==
  /\ serverState = "listening"
  /\ \E r \in Uploads :
       upCalls[r].getPineconeIndex = 1 /\ upRes[r] = <<200>>
  /\ qCalls.getPineconeIndex = 1
  /\ qCalls.describeIndexStats = 1
  /\ Len(qRes) = 1
  /\ qRes[1].status = 200

\* The external call upload r is waiting for settles.
UploadSettles(r) ==
  \/ PdfParsed(r)
  \/ PdfFailed(r)
  \/ \E k \in 1..MaxChunks : EmbeddingResolve(r, k) \/ EmbeddingReject(r, k)
  \/ StoreUpsert(r)
  \/ UploadRespondOk(r)
  \/ UpsertRejected(r)

\* The external call the query is waiting for settles.
QuerySettles ==
  \/ QueryEmbedded
  \/ QueryEmbeddingFailed
  \/ QueryStats
  \/ QueryStatsFailed
  \/ \E matches \in PendingResponses : QueryMatched(matches)
  \/ QueryNamespaceFailed
  \/ QueryGenerated
  \/ QueryGenerateFailed

\* C24: every invocation of uploadDocument and of queryDocuments sends
\* exactly one response: none while an external call it awaits is pending,
\* one as soon as the handler has returned, never a second one; a handler
\* that has not returned is always waiting for a call that can settle.
C24_ExactlyOneResponse ==
  /\ \A r \in Uploads :
       /\ Len(upRes[r]) = IF upPc[r] = "done" THEN 1 ELSE 0
       /\ upPc[r] \notin {"idle", "done"} => ENABLED UploadSettles(r)
  /\ Len(qRes) = IF qPc = "done" THEN 1 ELSE 0
  /\ qPc \notin {"idle", "done"} => ENABLED QuerySettles

\* One upload answered 200, one answered 500 after an embedding failed, and
\* the query answered after its generation call.
C24_Witness ==
  /\ \E r \in Uploads : upPc[r] = "done" /\ upRes[r] = <<200>>
  /\ \E r \in Uploads :
       upPc[r] = "done" /\ SomeRejected(r) /\ upRes[r] = <<500>>
  /\ qPc = "done"
  /\ qCalls.generateAnswer = 1
  /\ Len(qRes) = 1

(***************************************************************************)
(* The CORS origin check of the server (server.js 14-45) and of its older  *)
(* revision (unnamed/part_002 13-26), as a function of the Origin header   *)
(* and of FRONTEND_URL.                                                    *)
(***************************************************************************)
\* server.js 17
NetlifyOrigin ==
  <<"h", "t", "t", "p", "s", ":", "/", "/", "q", "u", "e", "r", "y", "-",
  "a", "s", "s", "i", "s", "t", "a", "n", "t", ".", "n", "e", "t", "l", "i",
  "f", "y", ".", "a", "p", "p", "/">>

\* server.js 18, unnamed/part_002 15
ViteOrigin ==
  <<"h", "t", "t", "p", ":", "/", "/", "l", "o", "c", "a", "l", "h", "o",
  "s", "t", ":", "5", "1", "7", "3">>

\* server.js 19
LocalOrigin ==
  <<"h", "t", "t", "p", ":", "/", "/", "l", "o", "c", "a", "l", "h", "o",
  "s", "t", ":", "3", "0", "0", "0">>

\* process.env.FRONTEND_URL: unset (<<>>), a URL of its own, the origin of the
\* deployed frontend as a browser sends it, or one of the fixed entries.
FrontendUrls ==
  {<<>>,
   <<"h", "t", "t", "p", "s", ":", "/", "/", "q", "a", ".", "e", "x", "a",
    "m", "p", "l", "e", ".", "c", "o", "m">>,
   <<"h", "t", "t", "p", "s", ":", "/", "/", "q", "u", "e", "r", "y", "-",
    "a", "s", "s", "i", "s", "t", "a", "n", "t", ".", "n", "e", "t", "l",
    "i", "f", "y", ".", "a", "p", "p">>,
   ViteOrigin}

\* The Origin header: absent, or a value: empty, an entry of a list, or a
\* scheme swap, an extension or a prefix of an entry, or an unrelated origin.
Origins ==
  {[defined |-> FALSE, value |-> <<>>]} \cup
  {[defined |-> TRUE, value |-> v] :
     v \in FrontendUrls \cup {NetlifyOrigin, LocalOrigin} \cup
       {<<"h", "t", "t", "p", "s", ":", "/", "/", "l", "o", "c", "a", "l",
         "h", "o", "s", "t", ":", "5", "1", "7", "3">>,
        <<"h", "t", "t", "p", ":", "/", "/", "l", "o", "c", "a", "l", "h",
         "o", "s", "t", ":", "5", "1", "7", "3", "0">>,
        <<"h", "t", "t", "p", ":", "/", "/", "l", "o", "c", "a", "l", "h",
         "o", "s", "t", ":", "5", "1", "7", "3", ".", "e", "v", "i", "l",
         ".", "c", "o", "m">>,
        <<"h", "t", "t", "p", ":", "/", "/", "q", "u", "e", "r", "y", "-",
         "a", "s", "s", "i", "s", "t", "a", "n", "t", ".", "n", "e", "t",
         "l", "i", "f", "y", ".", "a", "p", "p", "/">>,
        <<"h", "t", "t", "p", "s", ":", "/", "/", "e", "v", "i", "l", ".",
         "e", "x", "a", "m", "p", "l", "e">>,
        <<"h", "t", "t", "p", ":", "/", "/", "l", "o", "c", "a", "l", "h",
         "o", "s", "t", ":", "8", "0", "8", "0">>,
        <<"h", "t", "t", "p", "s", ":", "/", "/", "q", "a", ".", "e", "x",
         "a", "m", "p", "l", "e", ".", "c", "o", "m", ".", "e", "v", "i",
         "l", ".", "n", "e", "t">>,
        <<"h", "t", "t", "p", ":", "/", "/", "q", "a", ".", "e", "x", "a",
         "m", "p", "l", "e", ".", "c", "o", "m">>,
        <<"n", "u", "l", "l">>,
        <<"H", "T", "T", "P", ":", "/", "/", "L", "O", "C", "A", "L", "H",
         "O", "S", "T", ":", "5", "1", "7", "3">>,
        <<"h", "t", "t", "p", ":", "/", "/", "l", "o", "c", "a", "l", "h",
         "o", "s", "t", ":", "3", "0", "0">>,
        <<"h", "t", "t", "p", ":", "/", "/", "l", "o", "c", "a", "l", "h",
         "o", "s", "t">>}}

\* String.prototype.startsWith
StartsWith(s, prefix) ==
  Len(prefix) <= Len(s) /\ SubSeq(s, 1, Len(prefix)) = prefix

\* String.prototype.replace with a string pattern: the first occurrence only.
Replace(s, pat, rep) ==
  IF ~Includes(s, pat) THEN s
  ELSE LET first == CHOOSE i \in Occurrences(s, pat) :
                      \A j \in Occurrences(s, pat) : i <= j
       IN  SubSeq(s, 1, first) \o rep \o
           SubSeq(s, first + Len(pat) + 1, Len(s))

\* server.js 15-20: the list, without the unset FRONTEND_URL.
\* unnamed/part_002 14-17: [FRONTEND_URL, 'http://localhost:5173']; an unset
\* FRONTEND_URL stays in the list as undefined and equals no header value.
allowedOrigins(server, frontendUrl) ==
  (IF frontendUrl = <<>> THEN {} ELSE {frontendUrl}) \cup
  (IF server = "server.js" THEN {NetlifyOrigin, ViteOrigin, LocalOrigin}
   ELSE {ViteOrigin})

\* server.js 24, unnamed/part_002 21: !origin
NoOrigin(origin) == ~origin.defined \/ origin.value = <<>>

\* server.js 27-31: allowedOrigins.some(...)
\* unnamed/part_002 22: allowedOrigins.indexOf(origin) === -1
isAllowed(server, frontendUrl, origin) ==
  LET https == <<"h", "t", "t", "p", "s", ":", "/", "/">>
      http == <<"h", "t", "t", "p", ":", "/", "/">>
  IN  IF server = "server.js"
      THEN \E allowedOrigin \in allowedOrigins(server, frontendUrl) :
             \/ origin = allowedOrigin
             \/ StartsWith(origin, Replace(allowedOrigin, https, http))
             \/ StartsWith(origin, Replace(allowedOrigin, http, https))
      ELSE origin \in allowedOrigins(server, frontendUrl)

CorsInit ==
  /\ ChunkIdle
  /\ ServerIdle
  /\ QueryIdle
  /\ IdIdle
  /\ FaissIdle
  /\ ChatIdle
  /\ corsServer \in {"server.js", "part_002"}
  /\ corsFrontendUrl \in FrontendUrls
  /\ corsOrigin \in Origins
  /\ corsPc = "received"

\* server.js 24, unnamed/part_002 21: a request without Origin is admitted.
CorsNoOrigin ==
  /\ corsPc = "received"
  /\ NoOrigin(corsOrigin)
  /\ corsPc' = "admitted"
  /\ UNCHANGED <<ckVars, srvVars, upVars, qVars, idVars, fsVars, uiVars,
                 corsFrontendUrl, corsOrigin, corsServer>>

\* server.js 33-34, unnamed/part_002 26: callback(null, true)
CorsAdmit ==
  /\ corsPc = "received"
  /\ ~NoOrigin(corsOrigin)
  /\ isAllowed(corsServer, corsFrontendUrl, corsOrigin.value)
  /\ corsPc' = "admitted"
  /\ UNCHANGED <<ckVars, srvVars, upVars, qVars, idVars, fsVars, uiVars,
                 corsFrontendUrl, corsOrigin, corsServer>>

\* server.js 35-39, unnamed/part_002 22-25: callback(new Error(msg), false)
CorsReject ==
  /\ corsPc = "received"
  /\ ~NoOrigin(corsOrigin)
  /\ ~isAllowed(corsServer, corsFrontendUrl, corsOrigin.value)
  /\ corsPc' = "rejected"
  /\ UNCHANGED <<ckVars, srvVars, upVars, qVars, idVars, fsVars, uiVars,
                 corsFrontendUrl, corsOrigin, corsServer>>

CorsNext == CorsNoOrigin \/ CorsAdmit \/ CorsReject

SpecCors == CorsInit /\ [][CorsNext]_vars

\* C23: a request with an Origin header is admitted only if the origin is
\* one of the entries of the allow-list and is rejected otherwise; a request
\* without an Origin header is admitted.  A header with an empty value
\* names no origin.
C23_AllowListOnly ==
  LET named == corsOrigin.defined /\ corsOrigin.value # <<>>
      listed == corsOrigin.value \in
                  allowedOrigins(corsServer, corsFrontendUrl)
  IN  /\ corsPc = "admitted" => ~named \/ listed
      /\ corsPc = "rejected" => named /\ ~listed

(***************************************************************************)
(* The FAISS server (unnamed/part_000 199-514): one global vectorStore     *)
(* shared by the background initializeVectorStore, the /upload requests    *)
(* and the /api/ask request.  A FaissStore object is identified by its     *)
(* position in fsStores and holds the set of documents whose chunks it     *)
(* indexes; document 0 is a file found in the data directory at start,     *)
(* document r is the file of upload r.                                     *)
(***************************************************************************)
\* The document the data directory may hold when the server starts.
OldDocument == 0

\* res.status(status).json({error}) and res.json(...): a body without the
\* details field ("").
FsResponse(status) == [status |-> status, details |-> ""]

\* FaissStore.fromDocuments(docChunks, embeddings): a new store object.
FromDocuments(stores, docs) == Append(stores, docs)

\* store.addDocuments(docChunks) on the object target.
AddDocuments(stores, target, docs) ==
  [stores EXCEPT ![target] = @ \cup docs]

FsUpRespond(r, status) ==
  /\ fsUpRes' = [fsUpRes EXCEPT ![r] = Append(@, FsResponse(status))]
  /\ fsUpPc' = [fsUpPc EXCEPT ![r] = "done"]

FsAskRespond(response) ==
  /\ fsAskRes' = Append(fsAskRes, response)
  /\ fsAskPc' = "done"

\* The server listens (the requests below are handled only then).
FsListening == fsInitPc # "notStarted"

FaissInit ==
  /\ ChunkIdle
  /\ ServerIdle
  /\ QueryIdle
  /\ IdIdle
  /\ CorsIdle
  /\ ChatIdle
  /\ nodeEnv \in {"production", "development"}
  /\ fsDataDir \in {{}, {OldDocument}}
  /\ fsStores = <<>>
  /\ fsVectorStore = 0
  /\ fsIsProcessing = FALSE
  /\ fsInitPc = "notStarted"
  /\ fsInitDocs = {}
  /\ fsUpPc = [r \in Uploads |-> "idle"]
  /\ fsUpTarget = [r \in Uploads |-> 0]
  /\ fsUpRes = [r \in Uploads |-> <<>>]
  /\ fsAskPc = "idle"
  /\ fsAskStore = 0
  /\ fsAskDocs = {}
  /\ fsAskAfter = {}
  /\ fsAskRes = <<>>

\* unnamed/part_000 502-506, 287-301: the listen callback starts
\* initializeVectorStore, which lists the data directory; with no file it
\* returns at once, otherwise it reads and parses the files.
FsListen ==
  /\ fsInitPc = "notStarted"
  /\ IF fsIsProcessing
     THEN fsInitPc' = "done" /\ UNCHANGED fsInitDocs
     ELSE IF fsDataDir = {}
          THEN fsInitPc' = "done" /\ UNCHANGED fsInitDocs
          ELSE fsInitPc' = "reading" /\ fsInitDocs' = fsDataDir
  /\ fsIsProcessing' = (~fsIsProcessing /\ fsDataDir # {})
  /\ UNCHANGED <<ckVars, srvVars, upVars, qVars, idVars, corsVars, uiVars,
                 nodeEnv, fsDataDir, fsStores, fsVectorStore, fsUpPc,
                 fsUpTarget, fsUpRes, fsAskPc, fsAskStore, fsAskDocs,
                 fsAskAfter, fsAskRes>>

\* unnamed/part_000 306-352: the files are parsed, the documents with text
\* are kept and split; fromDocuments is called.
FsInitRead ==
  /\ fsInitPc = "reading"
  /\ fsInitPc' = "creating"
  /\ UNCHANGED <<ckVars, srvVars, upVars, qVars, idVars, corsVars, uiVars,
                 nodeEnv, fsDataDir, fsStores, fsVectorStore, fsIsProcessing,
                 fsInitDocs, fsUpPc, fsUpTarget, fsUpRes, fsAskPc, fsAskStore,
                 fsAskDocs, fsAskAfter, fsAskRes>>

\* unnamed/part_000 306-348: no file has text (or every parse failed and
\* was logged); initializeVectorStore returns, the finally resets isProcessing.
FsInitNoText ==
  /\ fsInitPc = "reading"
  /\ fsInitPc' = "done"
  /\ fsInitDocs' = {}
  /\ fsIsProcessing' = FALSE
  /\ UNCHANGED <<ckVars, srvVars, upVars, qVars, idVars, corsVars, uiVars,
                 nodeEnv, fsDataDir, fsStores, fsVectorStore, fsUpPc,
                 fsUpTarget, fsUpRes, fsAskPc, fsAskStore, fsAskDocs,
                 fsAskAfter, fsAskRes>>

\* unnamed/part_000 354-361: fromDocuments resolves and the new store is
\* assigned to vectorStore.
FsInitCreated ==
  /\ fsInitPc = "creating"
  /\ fsStores' = FromDocuments(fsStores, fsInitDocs)
  /\ fsVectorStore' = Len(fsStores) + 1
  /\ fsIsProcessing' = FALSE
  /\ fsInitPc' = "done"
  /\ UNCHANGED <<ckVars, srvVars, upVars, qVars, idVars, corsVars, uiVars,
                 nodeEnv, fsDataDir, fsInitDocs, fsUpPc, fsUpTarget, fsUpRes,
                 fsAskPc, fsAskStore, fsAskDocs, fsAskAfter, fsAskRes>>

\* unnamed/part_000 356-361, 505: fromDocuments rejects; the error is
\* rethrown and logged by the caller.
FsInitFailed ==
  /\ fsInitPc = "creating"
  /\ fsIsProcessing' = FALSE
  /\ fsInitPc' = "failed"
  /\ UNCHANGED <<ckVars, srvVars, upVars, qVars, idVars, corsVars, uiVars,
                 nodeEnv, fsDataDir, fsStores, fsVectorStore, fsInitDocs,
                 fsUpPc, fsUpTarget, fsUpRes, fsAskPc, fsAskStore, fsAskDocs,
                 fsAskAfter, fsAskRes>>

\* unnamed/part_000 432-434: no file in the request.
FsUploadNoFile(r) ==
  /\ FsListening
  /\ fsUpPc[r] = "idle"
  /\ FsUpRespond(r, 400)
  /\ UNCHANGED <<ckVars, srvVars, upVars, qVars, idVars, corsVars, uiVars,
                 nodeEnv, fsDataDir, fsStores, fsVectorStore, fsIsProcessing,
                 fsInitPc, fsInitDocs, fsUpTarget, fsAskPc, fsAskStore,
                 fsAskDocs, fsAskAfter, fsAskRes>>

\* unnamed/part_000 441, 457-460: renameSync throws, the catch answers 500.
FsUploadMoveFailed(r) ==
  /\ FsListening
  /\ fsUpPc[r] = "idle"
  /\ FsUpRespond(r, 500)
  /\ UNCHANGED <<ckVars, srvVars, upVars, qVars, idVars, corsVars, uiVars,
                 nodeEnv, fsDataDir, fsStores, fsVectorStore, fsIsProcessing,
                 fsInitPc, fsInitDocs, fsUpTarget, fsAskPc, fsAskStore,
                 fsAskDocs, fsAskAfter, fsAskRes>>

\* unnamed/part_000 437-444, 250-253: the file is moved into the data
\* directory and processPDF starts parsing it.
FsUploadReceive(r) ==
  /\ FsListening
  /\ fsUpPc[r] = "idle"
  /\ fsDataDir' = fsDataDir \cup {r}
  /\ fsUpPc' = [fsUpPc EXCEPT ![r] = "awaitParse"]
  /\ UNCHANGED <<ckVars, srvVars, upVars, qVars, idVars, corsVars, uiVars,
                 nodeEnv, fsStores, fsVectorStore, fsIsProcessing, fsInitPc,
                 fsInitDocs, fsUpTarget, fsUpRes, fsAskPc, fsAskStore,
                 fsAskDocs, fsAskAfter, fsAskRes>>

\* unnamed/part_000 253-269: the text is not blank; splitDocuments is called.
FsParsed(r) ==
  /\ fsUpPc[r] = "awaitParse"
  /\ fsUpPc' = [fsUpPc EXCEPT ![r] = "awaitSplit"]
  /\ UNCHANGED <<ckVars, srvVars, upVars, qVars, idVars, corsVars, uiVars,
                 nodeEnv, fsDataDir, fsStores, fsVectorStore, fsIsProcessing,
                 fsInitPc, fsInitDocs, fsUpTarget, fsUpRes, fsAskPc,
                 fsAskStore, fsAskDocs, fsAskAfter, fsAskRes>>

\* unnamed/part_000 280-283, 446-449: pdfParse rejects or finds no text, or
\* addDocuments or fromDocuments rejects: processPDF returns false, the file
\* is removed and the answer is 400.
FsUploadFailed(r) ==
  /\ fsUpPc[r] \in {"awaitParse", "awaitSplit", "awaitAdd", "awaitCreate"}
  /\ fsDataDir' = fsDataDir \ {r}
  /\ FsUpRespond(r, 400)
  /\ UNCHANGED <<ckVars, srvVars, upVars, qVars, idVars, corsVars, uiVars,
                 nodeEnv, fsStores, fsVectorStore, fsIsProcessing, fsInitPc,
                 fsInitDocs, fsUpTarget, fsAskPc, fsAskStore, fsAskDocs,
                 fsAskAfter, fsAskRes>>

\* unnamed/part_000 269-277: splitDocuments resolves; with a store
\* addDocuments is called on it, otherwise fromDocuments is called.
FsSplit(r) ==
  /\ fsUpPc[r] = "awaitSplit"
  /\ fsUpTarget' = [fsUpTarget EXCEPT ![r] = fsVectorStore]
  /\ fsUpPc' = [fsUpPc EXCEPT ![r] =
                IF fsVectorStore # 0 THEN "awaitAdd" ELSE "awaitCreate"]
  /\ UNCHANGED <<ckVars, srvVars, upVars, qVars, idVars, corsVars, uiVars,
                 nodeEnv, fsDataDir, fsStores, fsVectorStore, fsIsProcessing,
                 fsInitPc, fsInitDocs, fsUpRes, fsAskPc, fsAskStore,
                 fsAskDocs, fsAskAfter, fsAskRes>>

\* unnamed/part_000 271-273, 279, 451-456: addDocuments resolves, processPDF
\* returns true and the upload is answered 200.
FsAdded(r) ==
  /\ fsUpPc[r] = "awaitAdd"
  /\ fsStores' = AddDocuments(fsStores, fsUpTarget[r], {r})
  /\ FsUpRespond(r, 200)
  /\ UNCHANGED <<ckVars, srvVars, upVars, qVars, idVars, corsVars, uiVars,
                 nodeEnv, fsDataDir, fsVectorStore, fsIsProcessing, fsInitPc,
                 fsInitDocs, fsUpTarget, fsAskPc, fsAskStore, fsAskDocs,
                 fsAskAfter, fsAskRes>>

\* unnamed/part_000 274-279, 451-456: fromDocuments resolves, the new store
\* is assigned to vectorStore and the upload is answered 200.
FsCreated(r) ==
  /\ fsUpPc[r] = "awaitCreate"
  /\ fsStores' = FromDocuments(fsStores, {r})
  /\ fsVectorStore' = Len(fsStores) + 1
  /\ FsUpRespond(r, 200)
  /\ UNCHANGED <<ckVars, srvVars, upVars, qVars, idVars, corsVars, uiVars,
                 nodeEnv, fsDataDir, fsIsProcessing, fsInitPc, fsInitDocs,
                 fsUpTarget, fsAskPc, fsAskStore, fsAskDocs, fsAskAfter,
                 fsAskRes>>

\* unnamed/part_000 464-486, 365-379: /api/ask with no store or no question
\* is answered 400; otherwise answerQuery asks the model for the topic.
FsAskReceive(hasQuestion) ==
  /\ FsListening
  /\ fsAskPc = "idle"
  /\ fsAskAfter' = {r \in Uploads : fsUpRes[r] = <<FsResponse(200)>>}
  /\ IF fsVectorStore = 0 \/ ~hasQuestion
     THEN FsAskRespond(FsResponse(400))
     ELSE fsAskPc' = "awaitTopic" /\ UNCHANGED fsAskRes
  /\ UNCHANGED <<ckVars, srvVars, upVars, qVars, idVars, corsVars, uiVars,
                 nodeEnv, fsDataDir, fsStores, fsVectorStore, fsIsProcessing,
                 fsInitPc, fsInitDocs, fsUpPc, fsUpTarget, fsUpRes,
                 fsAskStore, fsAskDocs>>

\* unnamed/part_000 379-389: the topic arrives; the retriever is built on
\* the store vectorStore refers to now.
FsAskTopic ==
  /\ fsAskPc = "awaitTopic"
  /\ fsAskStore' = fsVectorStore
  /\ fsAskPc' = "awaitSearch"
  /\ UNCHANGED <<ckVars, srvVars, upVars, qVars, idVars, corsVars, uiVars,
                 nodeEnv, fsDataDir, fsStores, fsVectorStore, fsIsProcessing,
                 fsInitPc, fsInitDocs, fsUpPc, fsUpTarget, fsUpRes, fsAskDocs,
                 fsAskAfter, fsAskRes>>

\* unnamed/part_000 389-391, 400-425: the search returns clauses of the
\* store; the final chain is invoked.
FsAskFound ==
  /\ fsAskPc = "awaitSearch"
  /\ fsAskDocs' = fsStores[fsAskStore]
  /\ fsAskPc' = "awaitAnswer"
  /\ UNCHANGED <<ckVars, srvVars, upVars, qVars, idVars, corsVars, uiVars,
                 nodeEnv, fsDataDir, fsStores, fsVectorStore, fsIsProcessing,
                 fsInitPc, fsInitDocs, fsUpPc, fsUpTarget, fsUpRes,
                 fsAskStore, fsAskAfter, fsAskRes>>

\* unnamed/part_000 391-395: the search returns nothing; a second retriever
\* is built on the store vectorStore refers to now.
FsAskNotFound ==
  /\ fsAskPc = "awaitSearch"
  /\ fsAskStore' = fsVectorStore
  /\ fsAskPc' = "awaitGeneral"
  /\ UNCHANGED <<ckVars, srvVars, upVars, qVars, idVars, corsVars, uiVars,
                 nodeEnv, fsDataDir, fsStores, fsVectorStore, fsIsProcessing,
                 fsInitPc, fsInitDocs, fsUpPc, fsUpTarget, fsUpRes, fsAskDocs,
                 fsAskAfter, fsAskRes>>

\* unnamed/part_000 395-400, 487-494: the general search returns clauses;
\* the answer quotes the first and the response is 200.
FsAskGeneral ==
  /\ fsAskPc = "awaitGeneral"
  /\ fsAskDocs' = fsStores[fsAskStore]
  /\ FsAskRespond(FsResponse(200))
  /\ UNCHANGED <<ckVars, srvVars, upVars, qVars, idVars, corsVars, uiVars,
                 nodeEnv, fsDataDir, fsStores, fsVectorStore, fsIsProcessing,
                 fsInitPc, fsInitDocs, fsUpPc, fsUpTarget, fsUpRes,
                 fsAskStore, fsAskAfter>>

\* unnamed/part_000 422-427, 487-494: the final chain resolves, the response
\* is 200.
FsAskAnswered ==
  /\ fsAskPc = "awaitAnswer"
  /\ FsAskRespond(FsResponse(200))
  /\ UNCHANGED <<ckVars, srvVars, upVars, qVars, idVars, corsVars, uiVars,
                 nodeEnv, fsDataDir, fsStores, fsVectorStore, fsIsProcessing,
                 fsInitPc, fsInitDocs, fsUpPc, fsUpTarget, fsUpRes,
                 fsAskStore, fsAskDocs, fsAskAfter>>

\* unnamed/part_000 379, 390, 395-398, 422, 495-498: a model or search call
\* rejects, or the general search finds nothing and answerQuery throws; the
\* catch answers 500 with details: error.message, whatever NODE_ENV is.
FsAskFailed ==
  /\ fsAskPc \in {"awaitTopic", "awaitSearch", "awaitGeneral", "awaitAnswer"}
  /\ FsAskRespond([status |-> 500, details |-> "message"])
  /\ UNCHANGED <<ckVars, srvVars, upVars, qVars, idVars, corsVars, uiVars,
                 nodeEnv, fsDataDir, fsStores, fsVectorStore, fsIsProcessing,
                 fsInitPc, fsInitDocs, fsUpPc, fsUpTarget, fsUpRes,
                 fsAskStore, fsAskDocs, fsAskAfter>>

FaissNext ==
  \/ FsListen
  \/ FsInitRead
  \/ FsInitNoText
  \/ FsInitCreated
  \/ FsInitFailed
  \/ \E r \in Uploads : FsUploadNoFile(r)
  \/ \E r \in Uploads : FsUploadMoveFailed(r)
  \/ \E r \in Uploads : FsUploadReceive(r)
  \/ \E r \in Uploads : FsParsed(r)
  \/ \E r \in Uploads : FsUploadFailed(r)
  \/ \E r \in Uploads : FsSplit(r)
  \/ \E r \in Uploads : FsAdded(r)
  \/ \E r \in Uploads : FsCreated(r)
  \/ \E hasQuestion \in BOOLEAN : FsAskReceive(hasQuestion)
  \/ FsAskTopic
  \/ FsAskFound
  \/ FsAskNotFound
  \/ FsAskGeneral
  \/ FsAskAnswered
  \/ FsAskFailed

SpecFaiss == FaissInit /\ [][FaissNext]_vars

(***************************************************************************)
(* Claims about the FAISS server, checked under SpecFaiss.                 *)
(***************************************************************************)
\* Upload r has been answered with success.
FsUploaded(r) == fsUpRes[r] = <<FsResponse(200)>>

\* C25: under every interleaving of /upload requests with each other and
\* with the background initializeVectorStore, every upload answered with
\* success has its chunks in the store vectorStore refers to, and the store
\* a later /api/ask request searches holds the chunks of every upload that
\* was answered with success before that request arrived.
C25_UploadsKept ==
  /\ \A r \in Uploads :
       FsUploaded(r) => fsVectorStore # 0 /\ r \in fsStores[fsVectorStore]
  /\ fsAskDocs # {} => fsAskAfter \subseteq fsAskDocs

\* C21: in production no error response of any endpoint carries the
\* underlying error's message.
C21_NoDetailsInProduction ==
  nodeEnv = "production" =>
    /\ \A r \in Uploads : \A k \in 1..Len(fsUpRes[r]) :
         fsUpRes[r][k].details = ""
    /\ \A k \in 1..Len(fsAskRes) : fsAskRes[k].details = ""

(***************************************************************************)
(* The chat form of the frontend (frontend/geminiUi/src/App.jsx 4-189):    *)
(* the states query, isLoading and messages, the submit handler and the    *)
(* /query request it sends.  The handlers of a render read the isLoading of *)
(* that render; an update made in an event handler is rendered before the  *)
(* next event, an update made when a request settles is rendered later.    *)
(***************************************************************************)
\* String.prototype.trim
RECURSIVE Trim(_)
Trim(s) ==
  IF s # <<>> /\ s[1] \in Whitespace THEN Trim(Tail(s))
  ELSE IF s # <<>> /\ s[Len(s)] \in Whitespace
       THEN Trim(SubSeq(s, 1, Len(s) - 1))
       ELSE s

\* Texts the user types into the input.
Typed == {<<>>, <<" ">>, <<"h", "i">>, <<" ", "h", "i", " ">>, <<"?">>}

\* App.jsx 35-45: addMessage appends one message.
addMessage(messages, text, sender) ==
  Append(messages, [sender |-> sender, text |-> text])

\* App.jsx 24-33: addSystemMessage appends one system message.
addSystemMessage(messages, text) ==
  Append(messages, [sender |-> "system", text |-> text])

ChatInit ==
  /\ ChunkIdle
  /\ ServerIdle
  /\ QueryIdle
  /\ IdIdle
  /\ FaissIdle
  /\ CorsIdle
  /\ uiQuery = <<>>
  /\ uiIsLoading = FALSE
  /\ uiRendered = FALSE
  /\ uiMessages = <<[sender |-> "bot", text |-> <<"H", "e", "l", "l", "o">>]>>
  /\ uiInFlight = 0
  /\ uiSent = 0
  /\ uiSubmits = 0
  /\ uiSettled = <<>>

\* App.jsx 172-178: the input, disabled while isLoading, sets query.
UiType(text) ==
  /\ ~uiRendered
  /\ text # uiQuery
  /\ uiQuery' = text
  /\ UNCHANGED <<ckVars, srvVars, upVars, qVars, idVars, fsVars, corsVars,
                 uiIsLoading, uiRendered, uiMessages, uiInFlight, uiSent,
                 uiSubmits, uiSettled>>

\* Variant: the handler tests the query only.
UiSubmit_NoLoadingGuard ==
  /\ uiSubmits < MaxSubmits
  /\ uiSubmits' = uiSubmits + 1
  /\ LET userQuery == Trim(uiQuery)
     IN  IF userQuery = <<>>
         THEN UNCHANGED <<uiMessages, uiIsLoading, uiRendered, uiInFlight,
                          uiSent>>
         ELSE /\ uiMessages' = addMessage(uiMessages, userQuery, "user")
              /\ uiIsLoading' = TRUE
              /\ uiRendered' = TRUE
              /\ uiInFlight' = uiInFlight + 1
              /\ uiSent' = uiSent + 1
  /\ UNCHANGED <<ckVars, srvVars, upVars, qVars, idVars, fsVars, corsVars,
                 uiQuery, uiSettled>>

\* App.jsx 80-105: the form is submitted.  A blank query or a request in
\* progress ends the handler; otherwise it appends the user message, sets
\* isLoading and sends the /query request.
UiSubmit ==
  /\ uiSubmits < MaxSubmits
  /\ uiSubmits' = uiSubmits + 1
  /\ LET userQuery == Trim(uiQuery)
     IN  IF userQuery = <<>> \/ uiRendered
         THEN UNCHANGED <<uiMessages, uiIsLoading, uiRendered, uiInFlight,
                          uiSent>>
         ELSE /\ uiMessages' = addMessage(uiMessages, userQuery, "user")
              /\ uiIsLoading' = TRUE
              /\ uiRendered' = TRUE
              /\ uiInFlight' = uiInFlight + 1
              /\ uiSent' = uiSent + 1
  /\ UNCHANGED <<ckVars, srvVars, upVars, qVars, idVars, fsVars, corsVars,
                 uiQuery, uiSettled>>

\* App.jsx 117-119: a request has settled; the finally resets isLoading.
UiSettle(outcome) ==
  /\ uiInFlight > 0
  /\ uiInFlight' = uiInFlight - 1
  /\ uiSettled' = Append(uiSettled, outcome)
  /\ uiIsLoading' = FALSE

\* App.jsx 101-113: the response is ok and its body parses: a bot message.
UiFetchOk ==
  /\ UiSettle("ok")
  /\ uiMessages' =
       addMessage(uiMessages, <<"a", "n", "s", "w", "e", "r">>, "bot")
  /\ UNCHANGED <<ckVars, srvVars, upVars, qVars, idVars, fsVars, corsVars,
                 uiQuery, uiRendered, uiSent, uiSubmits>>

\* App.jsx 101, 107-110, 112, 114-116: fetch rejects (network failure), or
\* the response is not ok and the handler throws, or the response is ok
\* but response.json() rejects: the catch appends a system message.
UiFetchFailed(outcome) ==
  /\ UiSettle(outcome)
  /\ uiMessages' = addSystemMessage(uiMessages, <<"E", "r", "r", "o", "r">>)
  /\ UNCHANGED <<ckVars, srvVars, upVars, qVars, idVars, fsVars, corsVars,
                 uiQuery, uiRendered, uiSent, uiSubmits>>

\* The update made when the request settled is rendered: the form's handlers
\* read the new isLoading.
UiRender ==
  /\ uiRendered # uiIsLoading
  /\ uiRendered' = uiIsLoading
  /\ UNCHANGED <<ckVars, srvVars, upVars, qVars, idVars, fsVars, corsVars,
                 uiQuery, uiIsLoading, uiMessages, uiInFlight, uiSent,
                 uiSubmits, uiSettled>>

ChatNext ==
  \/ \E text \in Typed : UiType(text)
  \/ UiSubmit
  \/ UiFetchOk
  \/ \E outcome \in {"httpError", "networkError", "badBody"} :
       UiFetchFailed(outcome)
  \/ UiRender

SpecChat == ChatInit /\ [][ChatNext]_vars

\* The k-th reply of the list: the message after the k-th user message.
Reply(k) == uiMessages[2 * k + 1]

\* C26: a submit made while isLoading is true or with a blank query sends
\* no request and appends no message; every request sent appends exactly
\* one user message and then exactly one reply, a bot message on success
\* and a system message on failure; isLoading is true exactly while a
\* request is in flight, so it is false again once the request has settled;
\* at most one request is in flight.
C26_OneRequestAtATime ==
  /\ [](/\ uiInFlight <= 1
        /\ uiIsLoading <=> uiInFlight = 1
        /\ Len(uiSettled) = uiSent - uiInFlight
        /\ Len(uiMessages) = 1 + uiSent + Len(uiSettled)
        /\ \A k \in 1..uiSent : uiMessages[2 * k].sender = "user"
        /\ \A k \in 1..Len(uiSettled) :
             Reply(k).sender = IF uiSettled[k] = "ok" THEN "bot"
                               ELSE "system")
  /\ [][/\ (uiSubmits' # uiSubmits /\ (uiIsLoading \/ Trim(uiQuery) = <<>>))
             => uiSent' = uiSent /\ uiMessages' = uiMessages
        /\ uiSent' # uiSent =>
             /\ uiSent' = uiSent + 1
             /\ uiMessages' =
                  addMessage(uiMessages, Trim(uiQuery), "user")]_vars

\* Two requests were sent one after the other, the first answered and the
\* second failed, and a submit was ignored.
C26_Witness ==
  /\ uiSent = 2
  /\ uiSubmits = 3
  /\ uiSettled = <<"ok", "networkError">>
  /\ ~uiIsLoading
  /\ Len(uiMessages) = 5

====
